---------------------------- MODULE Spec2Model ----------------------------
(***************************************************************************)
(* A model of Browser Guard: the policy engine, the HTTP request filter,   *)
(* the web-fetch guard and the secure executor.                            *)
(*                                                                         *)
(* Strings the code only compares or pattern-matches are modelled by the   *)
(* parts the patterns look at:                                             *)
(*   - a hostname is its sequence of labels, <<"api","a","com">>;         *)
(*   - a URL is [scheme, host, ext] (ext: the last characters of the path); *)
(*   - an action description is its sequence of words.                     *)
(***************************************************************************)
EXTENDS Naturals, Integers, Sequences, FiniteSets, TLC

VARIABLES
    \* ---- policy engine (src/src/policy/engine.ts)
    engine,      \* the PolicyEngine object: [intent, rules]
    polCall,     \* the last allows() call and its decision
    \* ---- HTTP filter (src/unnamed/part_006)
    filt,        \* the HttpFilter object
    fCall,       \* the last filter() call and its decision
    \* ---- web-fetch guard (src/src/adapters/web-fetch-guard.ts)
    guard,       \* the WebFetchGuard object: [config, filter]
    gCall,       \* the last check() call and its result
    \* ---- secure executor (src/src/executor/element-refs.ts)
    dag,         \* the plan handed to execute()
    config,      \* the executor's configuration and its collaborators
    pc,          \* the position of execute() in its loop
    currentNodeId,
    context,     \* the ExecutionContext
    obs,         \* the observation of the last adapter call
    nextNodeId,  \* the branch selected in this iteration
    trace,
    clock,       \* Date.now() - startTime, in ticks
    result,      \* the ExecutionResult once returned
    refs,        \* the ElementRefManager: [currentVersion, snapshots]
    log,         \* history: what the run did, in order
    \* ---- plugin (src/unnamed/part_005)
    plugin,      \* the BrowserGuardPlugin object: [config, hasAdapter]
    state,       \* the plugin module's state: [log]
    pCall,       \* the last beforeToolCall() call and its decision
    \* ---- callers of the element ref manager
    rCall,       \* the last validateRef() call and its result
    issued,      \* history: the snapshots createSnapshot() returned, in order
    \* ---- module-level tables (engine.ts, task-parser.ts, part_007)
    tables,      \* STATIC_POLICIES, TASK_ACTIONS and the plan templates, as objects
    tOp,         \* the last operation a session performed and what it returned
    \* ---- one caching provider and its callers (part_009)
    heap,        \* the plan objects, by reference
    cache,       \* the provider's Map: cache key -> reference of the cached plan
    handed       \* history: the plans generatePlan returned, and who changed one

polVars  == <<engine, polCall>>
filtVars == <<filt, fCall>>
guardVars == <<guard, gCall>>
execVars == <<dag, config, pc, currentNodeId, context, obs, nextNodeId,
              trace, clock, result, refs, log>>
plugVars == <<plugin, state, pCall>>
mgrVars  == <<rCall, issued>>
tabVars  == <<tables, tOp>>
cacheVars == <<heap, cache, handed>>
auxVars  == <<plugVars, mgrVars, tabVars, cacheVars>>
vars == <<engine, polCall, filt, fCall, guard, gCall, dag, config, pc,
          currentNodeId, context, obs, nextNodeId, trace, clock, result,
          refs, log, auxVars>>

None == "none"

(***************************************************************************)
(* Sequence helpers                                                        *)
(***************************************************************************)
Range(s) == { s[i] : i \in 1..Len(s) }

\* pat occurs in s as a contiguous run (an unanchored pattern)
Contains(s, pat) ==
    \E i \in 1..(Len(s) + 1) :
        /\ i + Len(pat) - 1 <= Len(s)
        /\ \A j \in 1..Len(pat) : s[i + j - 1] = pat[j]

\* suf is a suffix of s
IsSuffix(suf, s) ==
    /\ Len(suf) <= Len(s)
    /\ \A j \in 1..Len(suf) : s[Len(s) - Len(suf) + j] = suf[j]

\* Array.prototype.sort((a, b) => a.priority - b.priority): a stable sort
RECURSIVE InsertByPriority(_, _)
InsertByPriority(sorted, x) ==
    IF sorted = <<>> THEN <<x>>
    ELSE IF sorted[Len(sorted)].priority <= x.priority
         THEN Append(sorted, x)
         ELSE Append(InsertByPriority(SubSeq(sorted, 1, Len(sorted) - 1), x),
                     sorted[Len(sorted)])

RECURSIVE SortByPriority(_)
SortByPriority(s) ==
    IF s = <<>> THEN <<>>
    ELSE InsertByPriority(SortByPriority(SubSeq(s, 1, Len(s) - 1)), s[Len(s)])

(***************************************************************************)
(* Case folding of the words and extensions the model uses (the /i flag    *)
(* and toLowerCase()).                                                     *)
(***************************************************************************)
Lower(w) ==
    CASE w = "Pay" -> "pay"
      [] w = "Search" -> "search"
      [] w = "Now" -> "now"
      [] w = "Checkout" -> "checkout"
      [] w = ".EXE" -> ".exe"
      [] w = "Read-Only" -> "read-only"
      [] OTHER -> w

LowerAll(s) == [i \in 1..Len(s) |-> Lower(s[i])]

(***************************************************************************)
(* URLs and targets                                                        *)
(***************************************************************************)
HostA     == <<"a", "com">>
HostApiA  == <<"api", "a", "com">>
HostEvil  == <<"evil", "com">>
NoHost    == <<>>

Url(scheme, host, ext) ==
    [form |-> "url", scheme |-> scheme, host |-> host, ext |-> ext, version |-> 0]
Selector(ext) ==
    [form |-> "selector", scheme |-> "", host |-> NoHost, ext |-> ext, version |-> 0]
RefTarget(v) ==
    [form |-> "ref", scheme |-> "", host |-> NoHost, ext |-> "", version |-> v]
NoTarget ==
    [form |-> "none", scheme |-> "", host |-> NoHost, ext |-> "", version |-> 0]
\* the empty string '' as a URL (context.currentUrl before the first action)
EmptyUrl == NoTarget

\* new URL(url).hostname, '' when the string is no URL
extractDomain(url) == IF url.form = "url" THEN url.host ELSE NoHost

\* url.startsWith('https://')
StartsWithHttps(url) == url.form = "url" /\ url.scheme = "https"

(***************************************************************************)
(* Policy engine: static tables                                            *)
(***************************************************************************)
Rule(id, source, domains, actions, taskTypes, effect, priority) ==
    [id |-> id, source |-> source, domains |-> domains, actions |-> actions,
     taskTypes |-> taskTypes, effect |-> effect, priority |-> priority]

STATIC_POLICIES ==
    << Rule("static:no-auto-payment", "static", {}, {"click", "type"}, {}, "deny", 0),
       Rule("static:https-only-credentials", "static", {}, {}, {"login"}, "deny", 0),
       Rule("static:no-executable-download", "static", {}, {"click", "navigate"}, {}, "deny", 0),
       Rule("static:block-malicious-domains", "static", {}, {}, {}, "deny", 0),
       Rule("static:confirm-form-submit", "static", {}, {"click"}, {}, "confirm", 10),
       Rule("static:confirm-external-nav", "static", {}, {"navigate", "click"}, {}, "confirm", 10) >>

\* /\.exe$/i ... /\.ps1$/i
EXECUTABLE_PATTERNS ==
    {".exe", ".msi", ".dmg", ".pkg", ".app", ".bat", ".cmd", ".sh", ".ps1"}

\* /pay\s*now/i, /pay\s*\$?\d/i, /place\s*order/i, ...
PAYMENT_INDICATORS ==
    { <<"pay", "now">>, <<"pay", "$", "1">>, <<"pay", "1">>, <<"place", "order">>,
      <<"complete", "purchase">>, <<"submit", "payment">>, <<"buy", "now">>,
      <<"buy", "for", "$">>, <<"checkout">>, <<"confirm", "payment">>,
      <<"process", "payment">> }

\* /phishing\./i, /malware\./i, /\.ru$/, /bit\.ly/, /tinyurl\.com/
isMaliciousDomain(domain) ==
    \/ \E i \in 1..(Len(domain) - 1) : Lower(domain[i]) \in {"phishing", "malware"}
    \/ Len(domain) >= 2 /\ domain[Len(domain)] = "ru"
    \/ Contains(domain, <<"bit", "ly">>)
    \/ Contains(domain, <<"tinyurl", "com">>)

TASK_ACTIONS(taskType) ==
    CASE taskType = "search"   -> {"navigate", "type", "click", "scroll", "extract"}
      [] taskType = "extract"  -> {"navigate", "scroll", "extract", "screenshot"}
      [] taskType = "monitor"  -> {"navigate", "scroll", "extract", "screenshot", "wait"}
      [] taskType = "interact" -> {"navigate", "click", "scroll", "type", "extract"}
      [] taskType = "purchase" -> {"navigate", "click", "scroll", "type", "extract"}
      [] taskType = "login"    -> {"navigate", "click", "type"}

\* the maxDepth column of TASK_CONSTRAINTS
TASK_CONSTRAINTS(taskType) ==
    [maxDepth |-> CASE taskType = "search"   -> 3
                    [] taskType = "extract"  -> 5
                    [] taskType = "monitor"  -> 2
                    [] taskType = "interact" -> 5
                    [] taskType = "purchase" -> 10
                    [] taskType = "login"    -> 3]

\* One tick of the model's clock is 300 000 ms: the longest timeout
\* validateIntent accepts is one tick.
TimeoutCap == 1

\* a BrowsingIntent as parseIntent(request, {timeout}) builds it; timeout in
\* ticks of the model's clock
Intent(taskType, allowedDomains, timeout) ==
    [present |-> TRUE, taskType |-> taskType, allowedDomains |-> allowedDomains,
     allowedActions |-> TASK_ACTIONS(taskType), timeout |-> timeout,
     maxDepth |-> TASK_CONSTRAINTS(taskType).maxDepth]
\* new PolicyEngine() without an intent
NoIntent ==
    [present |-> FALSE, taskType |-> None, allowedDomains |-> <<>>,
     allowedActions |-> {}, timeout |-> 0, maxDepth |-> 0]

\* the timeout check of validateIntent (the other checks look at the
\* request text and the domain list)
TimeoutIssue(intent) == intent.timeout > TimeoutCap


(***************************************************************************)
(* Policy engine: PolicyEngine                                             *)
(***************************************************************************)
deriveTaskPolicies(intent) ==
    << Rule("task:domain-allowlist", "task", Range(intent.allowedDomains), {}, {}, "allow", 5),
       Rule("task:domain-denylist", "task", {}, {}, {}, "deny", 100),
       Rule("task:action-allowlist", "task", {}, intent.allowedActions, {}, "allow", 5) >>
    \o (IF intent.taskType \in {"search", "extract"}
        THEN << Rule("task:read-only-no-submit", "task", {}, {"click"}, {}, "confirm", 20) >>
        ELSE <<>>)
    \o (IF intent.taskType = "login"
        THEN << Rule("task:login-single-site", "task", {}, {}, {}, "deny", 5) >>
        ELSE <<>>)

\* new PolicyEngine(intent?)
NewPolicyEngine(intent) ==
    [intent |-> intent,
     rules  |-> SortByPriority(STATIC_POLICIES \o
                    (IF intent.present THEN deriveTaskPolicies(intent) ELSE <<>>))]

\* addSitePolicies(policies): push each with source 'site', then sort
addSitePolicies(e, policies) ==
    [e EXCEPT !.rules =
        SortByPriority(e.rules \o [i \in 1..Len(policies) |->
                                      [policies[i] EXCEPT !.source = "site"]])]

\* One directive of the meta tag's content, trimmed and lower-cased. The rule's
\* id, `site:${domain}:<directive>`, is kept without the domain, which the rule's
\* scope carries.
SiteRuleOf(directive, domain) ==
    LET d == Lower(directive) IN
    CASE d = "no-form-submit" ->
           << Rule("site:no-form-submit", "site", {domain}, {"click"}, {}, "deny", 3) >>
      [] d = "read-only" ->
           << Rule("site:read-only", "site", {domain}, {"click", "type"}, {}, "deny", 3) >>
      [] d = "no-ai-agents" ->
           << Rule("site:no-ai-agents", "site", {domain}, {}, {}, "deny", 1) >>
      [] OTHER -> <<>>

\* parseSitePolicies(html, domain); html is [hasMeta, directives]: whether the
\* page carries the ai-agent-policy meta tag, and its content split at commas
RECURSIVE SiteRulesOf(_, _)
SiteRulesOf(directives, domain) ==
    IF directives = <<>> THEN <<>>
    ELSE SiteRuleOf(Head(directives), domain) \o SiteRulesOf(Tail(directives), domain)

parseSitePolicies(html, domain) ==
    IF html.hasMeta THEN SiteRulesOf(html.directives, domain) ELSE <<>>

Decision(allowed, effect, matchedRule, reason) ==
    [allowed |-> allowed, effect |-> effect, matchedRule |-> matchedRule,
     reason |-> reason]
AllowDecision == Decision(TRUE, "allow", None, None)

\* action.target && EXECUTABLE_PATTERNS.some(p => p.test(action.target))
IsExecutableTarget(target) ==
    target.form # "none" /\ Lower(target.ext) \in EXECUTABLE_PATTERNS

\* action.description && PAYMENT_INDICATORS.some(p => p.test(action.description))
IsPaymentDescription(description) ==
    \E p \in PAYMENT_INDICATORS : Contains(LowerAll(description), p)

\* a variant whose security check stops after the payment patterns
checkSecurityRulesNoHttps(e, action, ctx) ==
    IF IsExecutableTarget(action.target)
    THEN Decision(FALSE, "deny", "static:no-executable-download", "Executable download blocked")
    ELSE IF IsPaymentDescription(action.description)
    THEN Decision(FALSE, "deny", "static:no-auto-payment", "Payment action requires user confirmation")
    ELSE AllowDecision

checkSecurityRules(e, action, ctx) ==
    IF IsExecutableTarget(action.target)
    THEN Decision(FALSE, "deny", "static:no-executable-download", "Executable download blocked")
    ELSE IF IsPaymentDescription(action.description)
    THEN Decision(FALSE, "deny", "static:no-auto-payment", "Payment action requires user confirmation")
    ELSE IF e.intent.taskType = "login" /\ ~StartsWithHttps(ctx.currentUrl)
    THEN Decision(FALSE, "deny", "static:https-only-credentials", "Credentials cannot be entered on non-HTTPS sites")
    ELSE AllowDecision

\* domain === d || domain.endsWith(`.${d}`)
HostMatches(d, domain) ==
    domain = d \/ (Len(domain) > Len(d) /\ IsSuffix(d, domain))

checkDomainAllowed(e, url) ==
    IF ~e.intent.present THEN AllowDecision
    ELSE IF url.form # "url" THEN Decision(FALSE, "deny", None, "Invalid URL")
    ELSE IF isMaliciousDomain(url.host)
    THEN Decision(FALSE, "deny", None, "Navigation to malicious domain blocked")
    ELSE IF ~\E d \in Range(e.intent.allowedDomains) : HostMatches(d, url.host)
    THEN Decision(FALSE, "deny", None, "Domain not in allowlist")
    ELSE AllowDecision

\* PolicyEngine.allows(action, context)
allows(e, action, ctx) ==
    LET securityCheck == checkSecurityRules(e, action, ctx) IN
    IF ~securityCheck.allowed THEN securityCheck
    ELSE IF action.type = "navigate" /\ action.target.form # "none"
            /\ ~checkDomainAllowed(e, action.target).allowed
    THEN checkDomainAllowed(e, action.target)
    ELSE IF e.intent.present /\ action.type \notin e.intent.allowedActions
    THEN Decision(FALSE, "deny", None, "Action not allowed for this task")
    ELSE AllowDecision


(***************************************************************************)
(* Policy engine: the state machine of one engine and its callers          *)
(***************************************************************************)
MaxSiteRules == 2      \* site rules one engine admits in the model

PolicyIntents ==
    { NoIntent, Intent("interact", <<HostA>>, 1), Intent("login", <<HostA>>, 1) }

Htmls ==
    { [hasMeta |-> FALSE, directives |-> <<>>],
      [hasMeta |-> TRUE, directives |-> <<"no-form-submit">>],
      [hasMeta |-> TRUE, directives |-> <<"Read-Only">>],
      [hasMeta |-> TRUE, directives |-> <<"no-ai-agents">>],
      [hasMeta |-> TRUE, directives |-> <<"unknown">>],
      [hasMeta |-> TRUE, directives |-> <<"read-only", "no-ai-agents">>] }

Action(type, target, description) ==
    [type |-> type, target |-> target, description |-> description]

PolTargets ==
    { NoTarget, Selector(""), Url("https", HostA, ""), Url("https", HostA, ".EXE"),
      Url("https", HostEvil, "") }

PolDescriptions ==
    { <<>>, <<"click", "Pay", "Now">>, <<"submit", "form">> }

PolActions ==
    { Action(t, tg, d) : t \in {"navigate", "click", "type", "extract"},
                         tg \in PolTargets, d \in PolDescriptions }

Ctx(url) == [currentUrl |-> url, currentDomain |-> extractDomain(url)]

PolContexts ==
    { Ctx(Url("https", HostA, "")), Ctx(Url("http", HostA, "")) }

NoCall == [called |-> FALSE]
\* a recorded call is fresh until the object it was made on is changed again
Stale(call) == IF call.called THEN [call EXCEPT !.fresh = FALSE] ELSE call

PolInit ==
    /\ engine \in { NewPolicyEngine(i) : i \in PolicyIntents }
    /\ polCall = NoCall

\* a page of site `domain` is fetched and its directives are admitted
PolAddSitePolicies ==
    \E html \in Htmls, domain \in {HostA} :
        LET policies == parseSitePolicies(html, domain) IN
        /\ Cardinality({ i \in 1..Len(engine.rules) : engine.rules[i].source = "site" })
              + Len(policies) <= MaxSiteRules
        /\ engine' = addSitePolicies(engine, policies)
        /\ polCall' = Stale(polCall)
        /\ UNCHANGED <<filtVars, guardVars, execVars, auxVars>>

PolAllows ==
    \E action \in PolActions, ctx \in PolContexts :
        /\ polCall' = [called |-> TRUE, fresh |-> TRUE, action |-> action, ctx |-> ctx,
                       decision |-> allows(engine, action, ctx)]
        /\ UNCHANGED <<engine, filtVars, guardVars, execVars, auxVars>>

PolNext == PolAddSitePolicies \/ PolAllows


(***************************************************************************)
(* HTTP filter: HttpFilter                                                 *)
(*                                                                         *)
(* A Map is the sequence of its [key, value] entries in insertion order.   *)
(* A request URL is [scheme, host, path]; patterns and prefixes see it as  *)
(* the token sequence scheme, host labels, path segments.  Bodies are flat *)
(* objects: sets of <<key, value>> pairs.                                  *)
(***************************************************************************)
MapHas(m, k) == \E i \in 1..Len(m) : m[i].key = k
MapGet(m, k) == m[CHOOSE i \in 1..Len(m) : m[i].key = k].value
\* Map.prototype.set: an existing key keeps its place
MapSet(m, k, v) ==
    IF MapHas(m, k)
    THEN [i \in 1..Len(m) |-> IF m[i].key = k THEN [key |-> k, value |-> v] ELSE m[i]]
    ELSE Append(m, [key |-> k, value |-> v])

NewHttpFilter ==
    [sitemaps |-> <<>>, policies |-> <<>>, rules |-> <<>>,
     predictedAllowlist |-> {}, predictedAllowlistActive |-> FALSE]

loadSitemap(f, domain, entries) ==
    [f EXCEPT !.sitemaps = MapSet(f.sitemaps, domain, SortByPriority(entries))]
loadPolicy(f, domain, policy) ==
    [f EXCEPT !.policies = MapSet(f.policies, domain, policy)]
loadRules(f, domain, rules) ==
    [f EXCEPT !.rules = MapSet(f.rules, domain, rules)]
setPredictedAllowlist(f, domains, active) ==
    [f EXCEPT !.predictedAllowlist = Range(domains),
              !.predictedAllowlistActive = active]

\* if (!policyDomain || !hostname) return false; equal, or hostname ends with
\* '.' + policyDomain
domainMatches(policyDomain, hostname) ==
    /\ policyDomain # NoHost
    /\ hostname # NoHost
    /\ \/ policyDomain = hostname
       \/ Len(hostname) > Len(policyDomain) /\ IsSuffix(policyDomain, hostname)

\* the first entry, in insertion order, whose key matches the host
FindInMap(m, hostname) ==
    IF \E i \in 1..Len(m) : domainMatches(m[i].key, hostname)
    THEN m[CHOOSE i \in 1..Len(m) :
               /\ domainMatches(m[i].key, hostname)
               /\ \A j \in 1..(i - 1) : ~domainMatches(m[j].key, hostname)]
    ELSE [key |-> NoHost, value |-> None]

HasPolicy(f, hostname) == FindInMap(f.policies, hostname).key # NoHost
findPolicy(f, hostname) == FindInMap(f.policies, hostname).value
HasSitemap(f, hostname) == FindInMap(f.sitemaps, hostname).key # NoHost
findSitemap(f, hostname) == FindInMap(f.sitemaps, hostname).value

\* a variant that accepts every destination once the current domain has a policy
policyAllowsAnyDomain(f, currentDomain, destHost) ==
    /\ currentDomain # NoHost
    /\ HasPolicy(f, currentDomain)

policyAllowsDomain(f, currentDomain, destHost) ==
    /\ currentDomain # NoHost
    /\ HasPolicy(f, currentDomain)
    /\ \E ad \in Range(findPolicy(f, currentDomain).allowed_domains) :
           domainMatches(ad, destHost)

UrlTokens(u) == <<u.scheme>> \o u.host \o u.path

\* compilePattern(pattern).test(url): '{name}' is one segment, '*' any run
RECURSIVE PatternMatches(_, _)
PatternMatches(pat, toks) ==
    IF pat = <<>> THEN toks = <<>>
    ELSE IF Head(pat) = "*"
    THEN \E k \in 0..Len(toks) :
             PatternMatches(Tail(pat), SubSeq(toks, k + 1, Len(toks)))
    ELSE IF Head(pat) = "{param}"
    THEN toks # <<>> /\ PatternMatches(Tail(pat), Tail(toks))
    ELSE toks # <<>> /\ Head(toks) = Head(pat) /\ PatternMatches(Tail(pat), Tail(toks))

\* request.method.toUpperCase()
Upper(m) == CASE m = "get" -> "GET" [] m = "post" -> "POST" [] OTHER -> m

\* typeof body === 'string' ? parseBody(body) : body -- JSON first, then
\* URL-encoded; both give the object the string spells
BodyOf(request) == request.body.fields
HasBody(request) == request.body.form # "none"

EntryMatches(entry, request) ==
    /\ (entry.method = None \/ entry.method = Upper(request.method))
    /\ PatternMatches(IF entry.regex # <<>> THEN entry.regex ELSE entry.url,
                      UrlTokens(request.url))
    /\ (entry.body # {} => (HasBody(request) /\ entry.body \subseteq BodyOf(request)))
    /\ (entry.resource_types # {} =>
            (request.resourceType # None /\ request.resourceType \in entry.resource_types))

HasMatch(request, sitemap) == \E i \in 1..Len(sitemap) : EntryMatches(sitemap[i], request)
matchRequest(request, sitemap) ==
    sitemap[CHOOSE i \in 1..Len(sitemap) :
                /\ EntryMatches(sitemap[i], request)
                /\ \A j \in 1..(i - 1) : ~EntryMatches(sitemap[j], request)]

HasRule(semanticAction, rules) ==
    \E i \in 1..Len(rules) : semanticAction \in rules[i].action
findMatchingRule(semanticAction, rules) ==
    rules[CHOOSE i \in 1..Len(rules) :
              /\ semanticAction \in rules[i].action
              /\ \A j \in 1..(i - 1) : semanticAction \notin rules[j].action]

FilterDecision(allowed, action, reason, stripCookies) ==
    [allowed |-> allowed, action |-> action, reason |-> reason,
     stripCookies |-> stripCookies]

\* request.url.startsWith(ar.url) && (!ar.method || ar.method === method)
IsPrefix(pre, s) == Len(pre) <= Len(s) /\ SubSeq(s, 1, Len(pre)) = pre
ExplicitlyAllowed(policy, request) ==
    \E ar \in Range(policy.allowed_requests) :
        /\ IsPrefix(ar.url, UrlTokens(request.url))
        /\ (ar.method = None \/ ar.method = Upper(request.method))

DefaultDecision(policy) ==
    FilterDecision(policy.default # "deny", policy.default, "Default policy",
                   policy.default = "allow_public")

\* Layer 3 onwards, under the governing policy
FilterByPolicy(f, request, currentDomain, policy) ==
    LET destHost == request.url.host
        hasMap   == HasSitemap(f, destHost) \/ HasSitemap(f, currentDomain)
        sitemap  == IF HasSitemap(f, destHost) THEN findSitemap(f, destHost)
                    ELSE findSitemap(f, currentDomain)
        rules    == IF policy.domains # <<>> /\ MapHas(f.rules, policy.domains[1])
                    THEN MapGet(f.rules, policy.domains[1]) ELSE <<>>
    IN
    IF hasMap /\ HasMatch(request, sitemap)
    THEN LET match == matchRequest(request, sitemap) IN
         IF HasRule(match.semantic_action, rules)
         THEN LET rule == findMatchingRule(match.semantic_action, rules) IN
              FilterDecision(rule.effect # "deny", rule.effect, "rule",
                             rule.effect = "allow_public")
         ELSE DefaultDecision(policy)
    ELSE IF ExplicitlyAllowed(policy, request)
    THEN FilterDecision(TRUE, "allow", "Explicitly allowed request", FALSE)
    ELSE DefaultDecision(policy)

\* HttpFilter.filter(request, currentDomain?); currentDomain undefined is NoHost
filter(f, request, currentDomain) ==
    LET destHost == request.url.host IN
    IF /\ f.predictedAllowlistActive
       /\ destHost \notin f.predictedAllowlist
       /\ ~policyAllowsDomain(f, currentDomain, destHost)
    THEN FilterDecision(FALSE, "deny", "not in predicted allowlist", FALSE)
    ELSE IF ~HasPolicy(f, destHost) /\ ~(currentDomain # NoHost /\ HasPolicy(f, currentDomain))
    THEN FilterDecision(FALSE, "deny", "no policy and no current context", FALSE)
    ELSE IF ~HasPolicy(f, destHost) /\ ~policyAllowsDomain(f, currentDomain, destHost)
    THEN FilterDecision(FALSE, "deny", "not allowed by current policy", FALSE)
    ELSE FilterByPolicy(f, request, currentDomain,
                        IF HasPolicy(f, destHost) THEN findPolicy(f, destHost)
                        ELSE findPolicy(f, currentDomain))


\* [...new Set(seq)]: the distinct elements in first-occurrence order
RECURSIVE Dedupe(_)
Dedupe(s) ==
    IF s = <<>> THEN <<>>
    ELSE LET init == Dedupe(SubSeq(s, 1, Len(s) - 1)) IN
         IF s[Len(s)] \in Range(init) THEN init ELSE Append(init, s[Len(s)])

HostGithub == <<"github", "com">>
HostGitlab == <<"gitlab", "com">>

\* the companions added for one allowed domain (domain.includes('github.com'))
Companions(domain) ==
    (IF Contains(domain, HostGithub)
     THEN << <<"githubusercontent", "com">>, <<"github", "githubassets", "com">>,
             <<"api", "github", "com">> >>
     ELSE <<>>)
    \o (IF Contains(domain, HostGitlab)
        THEN << <<"gitlab", "net">>, <<"gl-product-analytics", "com">> >>
        ELSE <<>>)

RECURSIVE AllCompanions(_)
AllCompanions(domains) ==
    IF domains = <<>> THEN <<>>
    ELSE Companions(Head(domains)) \o AllCompanions(Tail(domains))

\* HttpFilter.predictAllowlistFromIntent(intent)
predictAllowlistFromIntent(intent) ==
    Dedupe(intent.allowedDomains \o AllCompanions(intent.allowedDomains))

\* variant: the generated policy admits no other host
AutoPolicyNoCrossOrigin(intent, domain, allowlist) ==
    [name |-> "auto",
     default |-> IF intent.taskType = "extract" THEN "allow_public" ELSE "allow",
     domains |-> <<domain>>, allowed_domains |-> <<>>,
     allowed_requests |-> <<>>, rules |-> <<>>]

AutoPolicy(intent, domain, allowlist) ==
    [name |-> "auto",
     default |-> IF intent.taskType = "extract" THEN "allow_public" ELSE "allow",
     domains |-> <<domain>>, allowed_domains |-> allowlist,
     allowed_requests |-> <<>>, rules |-> <<>>]

RECURSIVE LoadAutoPolicies(_, _, _, _)
LoadAutoPolicies(f, intent, domains, allowlist) ==
    IF domains = <<>> THEN f
    ELSE LoadAutoPolicies(loadPolicy(f, Head(domains),
                                     AutoPolicy(intent, Head(domains), allowlist)),
                          intent, Tail(domains), allowlist)

\* createFilterFromIntent(intent)
createFilterFromIntent(intent) ==
    LET allowlist == predictAllowlistFromIntent(intent) IN
    LoadAutoPolicies(setPredictedAllowlist(NewHttpFilter, allowlist, TRUE),
                     intent, intent.allowedDomains, allowlist)

(***************************************************************************)
(* Web-fetch guard: WebFetchGuard                                          *)
(***************************************************************************)
\* new WebFetchGuard(config): defaults overridden by the given fields
NewWebFetchGuard(cfg) ==
    [config |-> cfg, filter |-> NewHttpFilter, currentIntent |-> NoIntent]

setIntent(g, intent) ==
    [g EXCEPT !.currentIntent = intent, !.filter = createFilterFromIntent(intent)]

\* this.config = { ...this.config, ...updates }
updateConfig(g, updates) ==
    [g EXCEPT !.config = [k \in DOMAIN g.config |->
                            IF k \in DOMAIN updates THEN updates[k] ELSE g.config[k]]]

\* the four deletes of stripCookiesFromRequest on a copy of the headers
StrippedHeaderNames == {"cookie", "Cookie", "authorization", "Authorization"}
stripCookiesFromRequest(request) ==
    [request EXCEPT !.headers = [present |-> TRUE,
                                 names |-> request.headers.names \ StrippedHeaderNames]]

GuardResult(allowed, request, decision, modified) ==
    [allowed |-> allowed, request |-> request, decision |-> decision,
     modified |-> modified]

\* the HttpRequest check() hands to the filter
ToHttpRequest(request) ==
    [url |-> request.url,
     method |-> IF request.method = None THEN "GET" ELSE request.method,
     body |-> request.body, resourceType |-> None]

\* check() returning a denied request as not allowed whatever the mode
checkIgnoringMode(g, request) ==
    IF ~g.config.enabled
    THEN GuardResult(TRUE, request, FilterDecision(TRUE, "allow", "Guard disabled", FALSE), FALSE)
    ELSE IF request.url.host \in Range(g.config.trustedDomains)
    THEN GuardResult(TRUE, request, FilterDecision(TRUE, "allow", "Trusted domain", FALSE), FALSE)
    ELSE LET decision == filter(g.filter, ToHttpRequest(request), NoHost) IN
         IF ~decision.allowed
         THEN GuardResult(FALSE, request, decision, FALSE)
         ELSE IF decision.stripCookies \/ g.config.stripCookies
         THEN GuardResult(TRUE, stripCookiesFromRequest(request), decision, TRUE)
         ELSE GuardResult(TRUE, request, decision, FALSE)

\* WebFetchGuard.check(request)
check(g, request) ==
    IF ~g.config.enabled
    THEN GuardResult(TRUE, request, FilterDecision(TRUE, "allow", "Guard disabled", FALSE), FALSE)
    ELSE IF request.url.host \in Range(g.config.trustedDomains)
    THEN GuardResult(TRUE, request, FilterDecision(TRUE, "allow", "Trusted domain", FALSE), FALSE)
    ELSE LET decision == filter(g.filter, ToHttpRequest(request), NoHost) IN
         IF ~decision.allowed
         THEN (IF g.config.mode = "warn"
               THEN GuardResult(TRUE, request, decision, FALSE)
               ELSE GuardResult(FALSE, request, decision, FALSE))
         ELSE IF decision.stripCookies \/ g.config.stripCookies
         THEN GuardResult(TRUE, stripCookiesFromRequest(request), decision, TRUE)
         ELSE GuardResult(TRUE, request, decision, FALSE)

\* the messages check() hands to this.log(), in order, by their kind
checkLogged(g, request) ==
    IF ~g.config.enabled THEN <<>>
    ELSE IF request.url.host \in Range(g.config.trustedDomains)
    THEN <<"Trusted domain bypass">>
    ELSE LET decision == filter(g.filter, ToHttpRequest(request), NoHost) IN
         IF ~decision.allowed
         THEN (IF g.config.mode = "warn"
               THEN <<"Filter decision", "WARNING">>
               ELSE <<"Filter decision">>)
         ELSE IF decision.stripCookies \/ g.config.stripCookies
         THEN <<"Filter decision", "Stripped cookies">>
         ELSE <<"Filter decision">>

\* WebFetchGuard.log: the messages the onLog callback receives
GuardLog(g, messages) == IF g.config.onLog THEN messages ELSE <<>>


(***************************************************************************)
(* HTTP filter: the state machine of one filter and its callers            *)
(***************************************************************************)
HostCdn    == <<"cdn", "net">>
HostSubCdn == <<"x", "cdn", "net">>

ReqUrl(scheme, host, path) == [scheme |-> scheme, host |-> host, path |-> path]
\* a string new URL() rejects
InvalidUrl == ReqUrl("", NoHost, <<>>)

NoBody   == [form |-> "none", fields |-> {}]
ItemBody == [form |-> "json", fields |-> {<<"type", "item">>, <<"n", "1">>}]

FilterUrls ==
    { ReqUrl("https", HostA, <<"page">>), ReqUrl("https", HostA, <<"api", "items">>),
      ReqUrl("https", HostApiA, <<"v1">>), ReqUrl("https", HostCdn, <<"lib">>),
      ReqUrl("https", HostSubCdn, <<"lib">>), ReqUrl("https", HostEvil, <<"c">>),
      InvalidUrl }

FilterRequests ==
    { [url |-> u, method |-> "GET", body |-> NoBody, resourceType |-> None] :
        u \in FilterUrls }
    \cup
    { [url |-> ReqUrl("https", HostA, <<"api", "items">>), method |-> "post",
       body |-> b, resourceType |-> "xmlhttprequest"] : b \in {NoBody, ItemBody} }

FilterCurrentDomains == {NoHost, HostA, HostEvil}

SitePolicy(default, domains, allowed_domains, allowed_requests) ==
    [name |-> "site", default |-> default, domains |-> domains,
     allowed_domains |-> allowed_domains, allowed_requests |-> allowed_requests,
     rules |-> <<>>]

ApiRequests == << [url |-> <<"https", "a", "com", "api">>, method |-> "POST"] >>

\* the policies a caller loads, by the key it loads them under
PoliciesFor(domain) ==
    IF domain = HostA
    THEN { SitePolicy(d, <<HostA>>, ad, ApiRequests) :
             d \in {"allow", "deny", "allow_public"}, ad \in {<<>>, <<HostCdn>>} }
    ELSE { SitePolicy("deny", <<domain>>, <<>>, <<>>) }

SitemapEntry(semantic_action, url, method, body, priority) ==
    [semantic_action |-> semantic_action, url |-> url, method |-> method,
     body |-> body, regex |-> <<>>, resource_types |-> {}, priority |-> priority]

SitemapA ==
    << SitemapEntry("Create item", <<"https", "a", "com", "api", "{param}">>, "POST",
                    {<<"type", "item">>}, 2),
       SitemapEntry("View page", <<"https", "a", "com", "*">>, "GET", {}, 1) >>

RulesA ==
    << [effect |-> "deny", action |-> {"Create item"}, sensitive |-> TRUE],
       [effect |-> "allow_public", action |-> {"View page"}, sensitive |-> FALSE] >>

FiltInit ==
    /\ filt = NewHttpFilter
    /\ fCall = NoCall

FSetPredictedAllowlist ==
    \E args \in {<<<<HostA>>, TRUE>>, <<<<HostA, HostCdn>>, TRUE>>, <<<<HostA>>, FALSE>>} :
        /\ filt' = setPredictedAllowlist(filt, args[1], args[2])
        /\ fCall' = Stale(fCall)
        /\ UNCHANGED <<polVars, guardVars, execVars, auxVars>>

FLoadPolicy ==
    \E domain \in {HostA, HostApiA} : \E policy \in PoliciesFor(domain) :
        /\ filt' = loadPolicy(filt, domain, policy)
        /\ fCall' = Stale(fCall)
        /\ UNCHANGED <<polVars, guardVars, execVars, auxVars>>

FLoadSitemap ==
    /\ filt' = loadSitemap(filt, HostA, SitemapA)
    /\ fCall' = Stale(fCall)
    /\ UNCHANGED <<polVars, guardVars, execVars, auxVars>>

FLoadRules ==
    /\ filt' = loadRules(filt, HostA, RulesA)
    /\ fCall' = Stale(fCall)
    /\ UNCHANGED <<polVars, guardVars, execVars, auxVars>>

FFilter ==
    \E request \in FilterRequests, currentDomain \in FilterCurrentDomains :
        /\ fCall' = [called |-> TRUE, fresh |-> TRUE, request |-> request,
                     currentDomain |-> currentDomain,
                     decision |-> filter(filt, request, currentDomain)]
        /\ UNCHANGED <<filt, polVars, guardVars, execVars, auxVars>>

FiltNext ==
    FSetPredictedAllowlist \/ FLoadPolicy \/ FLoadSitemap \/ FLoadRules \/ FFilter

(***************************************************************************)
(* Web-fetch guard: the state machine of one guard and its callers         *)
(***************************************************************************)
\* onLog: whether a log callback is configured
GuardConfig(enabled, mode, trustedDomains, stripCookies, onLog) ==
    [enabled |-> enabled, mode |-> mode, trustedDomains |-> trustedDomains,
     stripCookies |-> stripCookies, onLog |-> onLog]

GuardConfigs ==
    { GuardConfig(e, m, t, sc, ol) : e \in BOOLEAN, m \in {"block", "warn"},
                                     t \in {<<>>, <<HostCdn>>}, sc \in BOOLEAN,
                                     ol \in BOOLEAN }

\* the updates updateConfig() is called with: every field but the callback
GuardConfigUpdates ==
    { [enabled |-> e, mode |-> m, trustedDomains |-> t, stripCookies |-> sc] :
        e \in BOOLEAN, m \in {"block", "warn"},
        t \in {<<>>, <<HostCdn>>}, sc \in BOOLEAN }

GuardIntents ==
    { Intent("extract", <<HostA>>, 1), Intent("interact", <<HostA>>, 1) }

Headers(names) == [present |-> TRUE, names |-> names]
NoHeaders == [present |-> FALSE, names |-> {}]

GuardRequests ==
    { [url |-> u, method |-> m, headers |-> h, body |-> NoBody] :
        u \in { ReqUrl("https", HostA, <<"page">>), ReqUrl("https", HostCdn, <<"lib">>),
                ReqUrl("https", HostEvil, <<"c">>) },
        m \in {None, "GET"},
        h \in { NoHeaders, Headers({"Accept"}), Headers({"Cookie", "Accept"}),
                Headers({"cookie"}), Headers({"Authorization", "authorization"}) } }

\* the guard is enabled, the host is not trusted and the filter denies
GuardDenies(g, request) ==
    /\ g.config.enabled
    /\ request.url.host \notin Range(g.config.trustedDomains)
    /\ ~filter(g.filter, ToHttpRequest(request), NoHost).allowed

GuardInit ==
    /\ guard \in { NewWebFetchGuard(cfg) : cfg \in GuardConfigs }
    /\ gCall = NoCall

GSetIntent ==
    \E intent \in GuardIntents :
        /\ guard' = setIntent(guard, intent)
        /\ UNCHANGED <<gCall, polVars, filtVars, execVars, auxVars>>

GUpdateConfig ==
    \E updates \in GuardConfigUpdates :
        /\ guard' = updateConfig(guard, updates)
        /\ UNCHANGED <<gCall, polVars, filtVars, execVars, auxVars>>

GCheck ==
    \E request \in GuardRequests :
        /\ gCall' = [called |-> TRUE, request |-> request,
                     config |-> guard.config, result |-> check(guard, request),
                     denied |-> GuardDenies(guard, request),
                     logged |-> checkLogged(guard, request),
                     received |-> GuardLog(guard, checkLogged(guard, request))]
        /\ UNCHANGED <<guard, polVars, filtVars, execVars, auxVars>>

GuardNext == GSetIntent \/ GUpdateConfig \/ GCheck


(***************************************************************************)
(* Secure executor: SecureExecutor                                         *)
(*                                                                         *)
(* An observation is [url, elements, text]: elements is the set of         *)
(* selectors some observed element matches, text the set of content        *)
(* patterns the visible text matches.  The adapter is the environment: a   *)
(* call returns any observation, or throws.                                *)
(***************************************************************************)
Observation(url, elements, text) == [url |-> url, elements |-> elements, text |-> text]
NoObservation == Observation(EmptyUrl, {}, {})

\* new RegExp(pattern).test(url) for the URL patterns plans use
UrlPatternMatches(pattern, url) ==
    CASE pattern = "^https://" -> StartsWithHttps(url)
      [] pattern = "evil"      -> url.form = "url" /\ "evil" \in Range(url.host)
      [] OTHER                 -> FALSE

Outcome(type, value, required) == [type |-> type, value |-> value, required |-> required]

OutcomeHolds(outcome, observation) ==
    CASE outcome.type = "url_pattern"     -> UrlPatternMatches(outcome.value, observation.url)
      [] outcome.type = "element_present" -> outcome.value \in observation.elements
      [] outcome.type = "element_absent"  -> outcome.value \notin observation.elements
      [] outcome.type = "content_match"   -> outcome.value \in observation.text
      [] OTHER                            -> TRUE

\* validateOutcomes(observation, outcomes).valid
validateOutcomes(observation, outcomes) ==
    \A i \in 1..Len(outcomes) :
        outcomes[i].required => OutcomeHolds(outcomes[i], observation)

Condition(type, value) == [type |-> type, value |-> value]

evaluateCondition(condition, observation) ==
    CASE condition.type = "default"         -> TRUE
      [] condition.type = "element_present" -> condition.value \in observation.elements
      [] condition.type = "element_absent"  -> condition.value \notin observation.elements
      [] condition.type = "url_match"       -> UrlPatternMatches(condition.value, observation.url)
      [] condition.type = "content_match"   -> condition.value \in observation.text
      [] OTHER                              -> FALSE

Edge(from, to, condition, priority) ==
    [from |-> from, to |-> to, condition |-> condition, priority |-> priority]

\* edges.filter(e => e.from === currentNodeId)
RECURSIVE OutgoingOf(_, _)
OutgoingOf(edges, nodeId) ==
    IF edges = <<>> THEN <<>>
    ELSE (IF Head(edges).from = nodeId THEN <<Head(edges)>> ELSE <<>>)
         \o OutgoingOf(Tail(edges), nodeId)

\* a variant that takes the first outgoing edge whatever its condition says
selectBranchUnconditional(edges, nodeId, observation) ==
    LET outgoing == SortByPriority(OutgoingOf(edges, nodeId)) IN
    IF outgoing = <<>> THEN None ELSE outgoing[1].to

\* a variant that tries the outgoing edges in the order the plan lists them
selectBranchUnsorted(edges, nodeId, observation) ==
    LET outgoing == OutgoingOf(edges, nodeId) IN
    IF \E i \in 1..Len(outgoing) : evaluateCondition(outgoing[i].condition, observation)
    THEN outgoing[CHOOSE i \in 1..Len(outgoing) :
                     /\ evaluateCondition(outgoing[i].condition, observation)
                     /\ \A j \in 1..(i - 1) :
                            ~evaluateCondition(outgoing[j].condition, observation)].to
    ELSE None

\* selectBranch(edges, currentNodeId, observation): the target, or None for null
selectBranch(edges, nodeId, observation) ==
    LET outgoing == SortByPriority(OutgoingOf(edges, nodeId)) IN
    IF \E i \in 1..Len(outgoing) : evaluateCondition(outgoing[i].condition, observation)
    THEN outgoing[CHOOSE i \in 1..Len(outgoing) :
                     /\ evaluateCondition(outgoing[i].condition, observation)
                     /\ \A j \in 1..(i - 1) :
                            ~evaluateCondition(outgoing[j].condition, observation)].to
    ELSE None

\* detectBranchSteering(observation, edge, context).safe
detectBranchSteering(observation, ctx) ==
    IF Len(ctx.visitedUrls) > 0
    THEN LET lastUrl       == ctx.visitedUrls[Len(ctx.visitedUrls)]
             lastDomain    == extractDomain(lastUrl)
             currentDomain == extractDomain(observation.url)
         IN ~( /\ lastDomain # currentDomain
               /\ ctx.extractedData.allowedDomains # <<>>
               /\ currentDomain \notin Range(ctx.extractedData.allowedDomains) )
    ELSE TRUE

Node(id, action, expectedOutcomes, extractionTargets, isTerminal, terminalResult) ==
    [id |-> id, action |-> action, expectedOutcomes |-> expectedOutcomes,
     extractionTargets |-> extractionTargets, isTerminal |-> isTerminal,
     terminalResult |-> terminalResult]

HasNode(d, nodeId) == \E i \in 1..Len(d.nodes) : d.nodes[i].id = nodeId
\* dag.nodes.find(n => n.id === nodeId)
FindNode(d, nodeId) ==
    d.nodes[CHOOSE i \in 1..Len(d.nodes) :
                /\ d.nodes[i].id = nodeId
                /\ \A j \in 1..(i - 1) : d.nodes[j].id # nodeId]

\* extractedData: the keys collected, and the value under '_allowedDomains'
\* (<<>> when the key is absent)
NoData == [keys |-> {}, allowedDomains |-> <<>>]
\* Object.assign(extractedData, data)
MergeData(extractedData, data) ==
    [keys |-> extractedData.keys \cup data.keys,
     allowedDomains |-> IF "_allowedDomains" \in data.keys THEN data.allowedDomains
                        ELSE extractedData.allowedDomains]

FreshContext ==
    [currentUrl |-> EmptyUrl, currentDomain |-> NoHost, visitedUrls |-> <<>>,
     depth |-> 0, extractedData |-> NoData]

\* this.config.maxTimeout ?? dag.intent.timeout
Timeout == IF config.maxTimeout.set THEN config.maxTimeout.ms ELSE dag.intent.timeout

\* data absent (undefined) is NoData with hasData FALSE
ExecResult(status, hasData, data) == [status |-> status, hasData |-> hasData, data |-> data]
NoResult == ExecResult("running", FALSE, NoData)

TerminalStatus(node) ==
    IF node.terminalResult = "success" THEN "complete"
    ELSE IF node.terminalResult = "abort" THEN "aborted" ELSE "error"

\* history of a run: the policy decisions, adapter calls, validations, branch
\* selections and steering checks, in the order execute() made them, each
\* with the time elapsed when it was made
Event(kind, node, ok, info, observation) ==
    [kind |-> kind, node |-> node, ok |-> ok, info |-> info, obs |-> observation,
     at |-> clock]
Plain(kind, node, ok, info) == Event(kind, node, ok, info, NoObservation)


(***************************************************************************)
(* Element ref manager: ElementRefManager                                  *)
(*                                                                         *)
(* A snapshot is [version, elements]: elements is the number of observed   *)
(* elements, which createSnapshot stores under the keys 1..elements.  A    *)
(* ref string is the sequence of its characters.                           *)
(***************************************************************************)
maxSnapshots == 5
MaxVersion == 2        \* snapshots one manager takes during a run of the executor

NewElementRefManager == [currentVersion |-> 0, snapshots |-> {}]

Min(S) == CHOOSE x \in S : \A y \in S : x <= y

\* a variant that stamps the snapshot with the version before the increment
NewSnapshotOldVersion(m, elements) == [version |-> m.currentVersion, elements |-> elements]

\* the snapshot createSnapshot(url, elements) builds and returns
NewSnapshot(m, elements) == [version |-> m.currentVersion + 1, elements |-> elements]

\* this.snapshots.get(version)
HasSnapshot(m, version) == \E sn \in m.snapshots : sn.version = version
GetSnapshot(m, version) == CHOOSE sn \in m.snapshots : sn.version = version

\* a variant that deletes the newest snapshot when the cap is exceeded
createSnapshotEvictNewest(m, elements) ==
    LET snapshot == NewSnapshot(m, elements)
        stored   == { sn \in m.snapshots : sn.version # snapshot.version } \cup {snapshot}
    IN [currentVersion |-> snapshot.version,
        snapshots |-> IF Cardinality(stored) > maxSnapshots
                      THEN { sn \in stored : sn.version # snapshot.version } ELSE stored]

\* createSnapshot(url, elements): the manager afterwards
createSnapshot(m, elements) ==
    LET snapshot == NewSnapshot(m, elements)
        \* this.snapshots.set(this.currentVersion, snapshot)
        stored   == { sn \in m.snapshots : sn.version # snapshot.version } \cup {snapshot}
        oldestVersion == Min({ sn.version : sn \in stored })
    IN [currentVersion |-> snapshot.version,
        snapshots |-> IF Cardinality(stored) > maxSnapshots
                      THEN { sn \in stored : sn.version # oldestVersion } ELSE stored]

getCurrentVersion(m) == m.currentVersion

\* ---- ref strings
DigitChars == <<"0", "1", "2", "3", "4", "5", "6", "7", "8", "9">>
IsDigit(c) == c \in Range(DigitChars)
DigitValue(c) == (CHOOSE i \in DOMAIN DigitChars : DigitChars[i] = c) - 1

RECURSIVE NumberToString(_)
NumberToString(n) ==
    IF n < 10 THEN <<DigitChars[n + 1]>>
    ELSE Append(NumberToString(n \div 10), DigitChars[(n % 10) + 1])

\* parseInt(digits, 10) of a non-empty string of digits
RECURSIVE parseInt(_)
parseInt(digits) ==
    IF Len(digits) = 1 THEN DigitValue(digits[1])
    ELSE 10 * parseInt(SubSeq(digits, 1, Len(digits) - 1)) + DigitValue(digits[Len(digits)])

\* createRef(version, ref).toString()
createRef(version, ref) == NumberToString(version) \o <<":">> \o NumberToString(ref)

NoRef == [ok |-> FALSE, version |-> 0, ref |-> 0]

\* parseRef: refString.match(/^(\d+):(\d+)$/), then parseInt of both groups
parseRef(refString) ==
    IF \E k \in 2..(Len(refString) - 1) :
          /\ refString[k] = ":"
          /\ \A i \in DOMAIN refString : i # k => IsDigit(refString[i])
    THEN LET k == CHOOSE j \in 2..(Len(refString) - 1) : refString[j] = ":"
         IN [ok |-> TRUE,
             version |-> parseInt(SubSeq(refString, 1, k - 1)),
             ref |-> parseInt(SubSeq(refString, k + 1, Len(refString)))]
    ELSE NoRef

RefResult(valid, error, element) == [valid |-> valid, error |-> error, element |-> element]

\* a variant that looks the version up among the stored snapshots only
validateRefAnyVersion(m, refString) ==
    LET parsed == parseRef(refString) IN
    IF ~parsed.ok THEN RefResult(FALSE, "Invalid ref format", 0)
    ELSE IF ~HasSnapshot(m, parsed.version)
    THEN RefResult(FALSE, "Snapshot not found", 0)
    ELSE IF parsed.ref \notin 1..GetSnapshot(m, parsed.version).elements
    THEN RefResult(FALSE, "Element ref not found", 0)
    ELSE RefResult(TRUE, None, parsed.ref)

\* validateRef(refString)
validateRef(m, refString) ==
    LET parsed == parseRef(refString) IN
    IF ~parsed.ok THEN RefResult(FALSE, "Invalid ref format", 0)
    ELSE IF parsed.version # m.currentVersion
    THEN RefResult(FALSE, "Stale ref", 0)
    ELSE IF ~HasSnapshot(m, parsed.version)
    THEN RefResult(FALSE, "Snapshot not found", 0)
    ELSE IF parsed.ref \notin 1..GetSnapshot(m, parsed.version).elements
    THEN RefResult(FALSE, "Element ref not found", 0)
    ELSE RefResult(TRUE, None, parsed.ref)

(***************************************************************************)
(* Secure executor: the plans, configurations and observations of the      *)
(* model                                                                   *)
(***************************************************************************)
Observations ==
    { Observation(Url("https", HostA, ""), {"ok"}, {}),
      Observation(Url("https", HostA, ""), {}, {}),
      Observation(Url("https", HostEvil, ""), {"ok"}, {}) }

\* parseIntent(request, {timeout: 300000, maxDepth: 2})
PlanIntent == [Intent("interact", <<HostA>>, 1) EXCEPT !.maxDepth = 2]

\* what a non-terminal node of a plan asks for
NodeKinds ==
    { [action |-> Action("navigate", Url("https", HostA, ""), <<"open", "page">>),
       expectedOutcomes |-> <<Outcome("element_present", "ok", TRUE)>>,
       extractionTargets |-> <<>>],
      [action |-> Action("navigate", Url("https", HostEvil, ""), <<"open", "page">>),
       expectedOutcomes |-> <<>>,
       extractionTargets |-> <<>>],
      [action |-> Action("click", RefTarget(1), <<"submit", "form">>),
       expectedOutcomes |-> <<Outcome("element_present", "ok", FALSE)>>,
       extractionTargets |-> <<>>],
      [action |-> Action("extract", NoTarget, <<"read", "page">>),
       expectedOutcomes |-> <<>>,
       extractionTargets |-> <<"_allowedDomains">>] }

NodeOf(id, kind) ==
    Node(id, kind.action, kind.expectedOutcomes, kind.extractionTargets, FALSE, None)

TerminalNode(id, terminalResult) ==
    Node(id, Action("extract", NoTarget, <<"done">>), <<>>, <<>>, TRUE, terminalResult)

EdgeLists ==
    { << Edge("n1", "n2", Condition("default", None), 0),
         Edge("n2", "n3", Condition("default", None), 0) >>,
      << Edge("n1", "n3", Condition("default", None), 1),
         Edge("n1", "n2", Condition("element_present", "ok"), 0),
         Edge("n2", "n1", Condition("default", None), 0) >>,
      << Edge("n1", "n2", Condition("element_present", "ok"), 0),
         Edge("n2", "ghost", Condition("default", None), 0) >>,
      << Edge("n1", "n2", Condition("url_match", "evil"), 0),
         Edge("n1", "n3", Condition("element_absent", "ok"), 5),
         Edge("n2", "n3", Condition("default", None), 0) >> }

\* parseIntent of a login request on a.com
LoginIntent == Intent("login", <<HostA>>, 1)

\* plans for the login intent: the entry node opens an https page of the
\* allowed domain (or types into the page)
LoginDags ==
    { [intent |-> LoginIntent,
       nodes |-> <<NodeOf("n1", [action |-> a, expectedOutcomes |-> <<>>,
                                 extractionTargets |-> <<>>]),
                   TerminalNode("n2", "abort"), TerminalNode("n3", "success")>>,
       edges |-> << Edge("n1", "n2", Condition("default", None), 0),
                    Edge("n2", "n3", Condition("default", None), 0) >>,
       entryPoint |-> "n1"] :
        a \in { Action("navigate", Url("https", HostA, ""), <<"open", "login", "page">>),
                Action("type", Selector(""), <<"enter", "name">>) } }

Dags ==
    { [intent |-> PlanIntent,
       nodes |-> <<NodeOf("n1", k1), n2, TerminalNode("n3", "success")>>,
       edges |-> edges,
       entryPoint |-> entry] :
        k1 \in NodeKinds,
        n2 \in { NodeOf("n2", k) : k \in NodeKinds } \cup { TerminalNode("n2", "abort") },
        edges \in EdgeLists,
        entry \in {"n1", "ghost"} }
    \cup LoginDags

ExecutorConfig(traceEnabled, strictMode, maxTimeout) ==
    [traceEnabled |-> traceEnabled, strictMode |-> strictMode, maxTimeout |-> maxTimeout]
NoMaxTimeout == [set |-> FALSE, ms |-> 0]
MaxTimeout(ms) == [set |-> TRUE, ms |-> ms]

ExecutorConfigs ==
    { ExecutorConfig(TRUE, TRUE, NoMaxTimeout), ExecutorConfig(TRUE, FALSE, NoMaxTimeout),
      ExecutorConfig(FALSE, TRUE, NoMaxTimeout), ExecutorConfig(TRUE, TRUE, MaxTimeout(0)),
      ExecutorConfig(TRUE, TRUE, MaxTimeout(2)) }

(***************************************************************************)
(* Secure executor: execute(dag), one action per step of its loop          *)
(***************************************************************************)
MaxSteps == 3          \* adapter calls of one run the model follows

ActionTypes == {"navigate", "click", "type", "scroll", "extract", "screenshot", "wait"}

CurrentNode == FindNode(dag, currentNodeId)

Finish(status, hasData) ==
    /\ result' = ExecResult(status, hasData,
                            IF hasData THEN context.extractedData ELSE NoData)
    /\ pc' = "done"

\* if (Date.now() - startTime > timeout) return timeout
ExecTimeout ==
    /\ pc = "loop"
    /\ clock > Timeout
    /\ Finish("timeout", FALSE)
    /\ log' = Append(log, Plain("timeout", currentNodeId, FALSE, None))
    /\ UNCHANGED <<dag, config, currentNodeId, context, obs, nextNodeId, trace,
                   clock, refs>>
    /\ UNCHANGED <<polVars, filtVars, guardVars, auxVars>>

\* if (!node) return error
ExecNodeNotFound ==
    /\ pc = "loop"
    /\ ~(clock > Timeout)
    /\ ~HasNode(dag, currentNodeId)
    /\ Finish("error", FALSE)
    /\ log' = Append(log, Plain("notfound", currentNodeId, FALSE, None))
    /\ UNCHANGED <<dag, config, currentNodeId, context, obs, nextNodeId, trace,
                   clock, refs>>
    /\ UNCHANGED <<polVars, filtVars, guardVars, auxVars>>

\* the policy check of this.policy.allows(node.action, context)
PolicyCheck == allows(engine, CurrentNode.action, context)

\* a variant interpreter that records the deny and performs the action anyway
ExecPolicyDenyIgnored ==
    /\ pc = "loop"
    /\ ~(clock > Timeout)
    /\ HasNode(dag, currentNodeId)
    /\ ~PolicyCheck.allowed
    /\ context.depth < MaxSteps
    /\ pc' = "act"
    /\ log' = Append(log, Plain("policy", currentNodeId, FALSE, None))
    /\ UNCHANGED <<dag, config, currentNodeId, context, obs, nextNodeId, trace,
                   clock, result, refs>>
    /\ UNCHANGED <<polVars, filtVars, guardVars, auxVars>>

\* if (!policyCheck.allowed) return blocked
ExecPolicyDeny ==
    /\ pc = "loop"
    /\ ~(clock > Timeout)
    /\ HasNode(dag, currentNodeId)
    /\ ~PolicyCheck.allowed
    /\ Finish("blocked", FALSE)
    /\ log' = Append(log, Plain("policy", currentNodeId, FALSE, None))
    /\ UNCHANGED <<dag, config, currentNodeId, context, obs, nextNodeId, trace,
                   clock, refs>>
    /\ UNCHANGED <<polVars, filtVars, guardVars, auxVars>>

\* a variant interpreter that asks the policy without looking at the deadline
ExecPolicyAllowUnchecked ==
    /\ pc = "loop"
    /\ HasNode(dag, currentNodeId)
    /\ PolicyCheck.allowed
    /\ context.depth < MaxSteps
    /\ pc' = "act"
    /\ log' = Append(log, Plain("policy", currentNodeId, TRUE, None))
    /\ UNCHANGED <<dag, config, currentNodeId, context, obs, nextNodeId, trace,
                   clock, result, refs>>
    /\ UNCHANGED <<polVars, filtVars, guardVars, auxVars>>

\* the policy allowed the action: executeAction is entered
ExecPolicyAllow ==
    /\ pc = "loop"
    /\ ~(clock > Timeout)
    /\ HasNode(dag, currentNodeId)
    /\ PolicyCheck.allowed
    /\ context.depth < MaxSteps
    /\ pc' = "act"
    /\ log' = Append(log, Plain("policy", currentNodeId, TRUE, None))
    /\ UNCHANGED <<dag, config, currentNodeId, context, obs, nextNodeId, trace,
                   clock, result, refs>>
    /\ UNCHANGED <<polVars, filtVars, guardVars, auxVars>>

\* the data an adapter call returns beside the observation
AdapterData(node) ==
    IF node.action.type = "extract" /\ node.extractionTargets # <<>>
    THEN [keys |-> Range(node.extractionTargets),
          allowedDomains |-> IF "_allowedDomains" \in Range(node.extractionTargets)
                             THEN dag.intent.allowedDomains ELSE <<>>]
    ELSE IF node.action.type = "screenshot"
    THEN [keys |-> {"screenshot"}, allowedDomains |-> <<>>]
    ELSE NoData

\* the action addresses an element by a versioned ref that is not current
IsStaleRef(target) == target.form = "ref" /\ target.version # refs.currentVersion

\* context and trace after the adapter returned `observation`
RefState(target) ==
    IF target.form # "ref" THEN None ELSE IF IsStaleRef(target) THEN "stale" ELSE "current"

ContextAfter(node, observation) ==
    [currentUrl |-> observation.url,
     currentDomain |-> extractDomain(observation.url),
     visitedUrls |-> Append(context.visitedUrls, observation.url),
     depth |-> context.depth + 1,
     extractedData |-> MergeData(context.extractedData, AdapterData(node))]

TraceEntry(nodeId, decision, branchTaken) ==
    [nodeId |-> nodeId, decision |-> decision, branchTaken |-> branchTaken]

TraceAfter(node) ==
    IF config.traceEnabled
    THEN Append(trace, TraceEntry(node.id, IF node.isTerminal THEN "abort" ELSE "continue", None))
    ELSE trace

\* executeAction throws: an unknown action type, or the adapter fails
ExecActThrows ==
    /\ pc = "act"
    /\ Finish("error", FALSE)
    /\ log' = Append(log, Plain(IF CurrentNode.action.type \in ActionTypes
                                THEN "adapter" ELSE "unknown",
                                currentNodeId, FALSE, RefState(CurrentNode.action.target)))
    /\ UNCHANGED <<dag, config, currentNodeId, context, obs, nextNodeId, trace,
                   clock, refs>>
    /\ UNCHANGED <<polVars, filtVars, guardVars, auxVars>>

\* the adapter call of a terminal node returns: return the terminal status
ExecActTerminal ==
    /\ pc = "act"
    /\ CurrentNode.action.type \in ActionTypes
    /\ CurrentNode.isTerminal
    /\ \E observation \in Observations :
        /\ obs' = observation
        /\ context' = ContextAfter(CurrentNode, observation)
        /\ result' = ExecResult(TerminalStatus(CurrentNode), TRUE, context'.extractedData)
    /\ trace' = TraceAfter(CurrentNode)
    /\ clock' = clock + 1
    /\ pc' = "done"
    /\ log' = Append(log, Event("adapter", currentNodeId, TRUE,
                                RefState(CurrentNode.action.target), obs'))
    /\ UNCHANGED <<dag, config, currentNodeId, nextNodeId, refs>>
    /\ UNCHANGED <<polVars, filtVars, guardVars, auxVars>>

\* the adapter call of a non-terminal node returns
ExecActContinue ==
    /\ pc = "act"
    /\ CurrentNode.action.type \in ActionTypes
    /\ ~CurrentNode.isTerminal
    /\ \E observation \in Observations :
        /\ obs' = observation
        /\ context' = ContextAfter(CurrentNode, observation)
    /\ trace' = TraceAfter(CurrentNode)
    /\ clock' = clock + 1
    /\ pc' = "validate"
    /\ log' = Append(log, Event("adapter", currentNodeId, TRUE,
                                RefState(CurrentNode.action.target), obs'))
    /\ UNCHANGED <<dag, config, currentNodeId, nextNodeId, result, refs>>
    /\ UNCHANGED <<polVars, filtVars, guardVars, auxVars>>

OutcomeCheck == validateOutcomes(obs, CurrentNode.expectedOutcomes)

\* a variant interpreter that selects a branch after a strict-mode mismatch
ExecValidateAbortIgnored ==
    /\ pc = "validate"
    /\ ~OutcomeCheck /\ config.strictMode
    /\ pc' = "branch"
    /\ log' = Append(log, Event("validate", currentNodeId, FALSE, "pass", obs))
    /\ UNCHANGED <<dag, config, currentNodeId, context, obs, nextNodeId, trace,
                   clock, result, refs>>
    /\ UNCHANGED <<polVars, filtVars, guardVars, auxVars>>

\* if (!outcomeCheck.valid && this.config.strictMode) return aborted
ExecValidateAbort ==
    /\ pc = "validate"
    /\ ~OutcomeCheck /\ config.strictMode
    /\ Finish("aborted", FALSE)
    /\ log' = Append(log, Event("validate", currentNodeId, FALSE, "abort", obs))
    /\ UNCHANGED <<dag, config, currentNodeId, context, obs, nextNodeId, trace,
                   clock, refs>>
    /\ UNCHANGED <<polVars, filtVars, guardVars, auxVars>>

ExecValidatePass ==
    /\ pc = "validate"
    /\ ~(~OutcomeCheck /\ config.strictMode)
    /\ pc' = "branch"
    /\ log' = Append(log, Event("validate", currentNodeId, OutcomeCheck, "pass", obs))
    /\ UNCHANGED <<dag, config, currentNodeId, context, obs, nextNodeId, trace,
                   clock, result, refs>>
    /\ UNCHANGED <<polVars, filtVars, guardVars, auxVars>>

SelectedBranch == selectBranch(dag.edges, currentNodeId, obs)

\* if (!nextNodeId) return error
ExecBranchNone ==
    /\ pc = "branch"
    /\ SelectedBranch = None
    /\ Finish("error", FALSE)
    /\ log' = Append(log, Plain("nobranch", currentNodeId, FALSE, None))
    /\ UNCHANGED <<dag, config, currentNodeId, context, obs, nextNodeId, trace,
                   clock, refs>>
    /\ UNCHANGED <<polVars, filtVars, guardVars, auxVars>>

\* variant: the branch is taken without the trace entry being updated
ExecBranchTakeUnrecorded ==
    /\ pc = "branch"
    /\ SelectedBranch # None
    /\ nextNodeId' = SelectedBranch
    /\ trace' = trace
    /\ pc' = "steer"
    /\ log' = Append(log, Event("branch", currentNodeId, TRUE, SelectedBranch, obs))
    /\ UNCHANGED <<dag, config, currentNodeId, context, obs, clock, result, refs>>
    /\ UNCHANGED <<polVars, filtVars, guardVars, auxVars>>

ExecBranchTake ==
    /\ pc = "branch"
    /\ SelectedBranch # None
    /\ nextNodeId' = SelectedBranch
    /\ trace' = IF config.traceEnabled /\ Len(trace) > 0
                THEN [trace EXCEPT ![Len(trace)] =
                         TraceEntry(trace[Len(trace)].nodeId, "branch", SelectedBranch)]
                ELSE trace
    /\ pc' = "steer"
    /\ log' = Append(log, Event("branch", currentNodeId, TRUE, SelectedBranch, obs))
    /\ UNCHANGED <<dag, config, currentNodeId, context, obs, clock, result, refs>>
    /\ UNCHANGED <<polVars, filtVars, guardVars, auxVars>>

SteeringCheck == detectBranchSteering(obs, context)

\* if (!steeringCheck.safe) return aborted; else currentNodeId = nextNodeId
ExecSteer ==
    /\ pc = "steer"
    /\ IF ~SteeringCheck
       THEN /\ Finish("aborted", FALSE)
            /\ UNCHANGED currentNodeId
       ELSE /\ currentNodeId' = nextNodeId
            /\ pc' = "loop"
            /\ UNCHANGED result
    /\ log' = Append(log, Event("steer", currentNodeId, SteeringCheck, nextNodeId, obs))
    /\ UNCHANGED <<dag, config, context, obs, nextNodeId, trace, clock, refs>>
    /\ UNCHANGED <<polVars, filtVars, guardVars, auxVars>>

ExecNext ==
    \/ ExecTimeout \/ ExecNodeNotFound \/ ExecPolicyDeny \/ ExecPolicyAllow
    \/ ExecActThrows \/ ExecActTerminal \/ ExecActContinue
    \/ ExecValidateAbort \/ ExecValidatePass
    \/ ExecBranchNone \/ ExecBranchTake \/ ExecSteer


\* the number of elements of the pages the executor's adapter observes
PageElements == 2

\* a page is observed and snapshotted while the run awaits the adapter, or
\* before the run starts
RefCreateSnapshot ==
    /\ pc = "act" \/ (pc = "loop" /\ context.depth = 0)
    /\ refs.currentVersion < MaxVersion
    /\ refs' = createSnapshot(refs, PageElements)
    /\ issued' = Append(issued, NewSnapshot(refs, PageElements))
    /\ UNCHANGED <<dag, config, pc, currentNodeId, context, obs, nextNodeId, trace,
                   clock, result, log>>
    /\ UNCHANGED <<polVars, filtVars, guardVars, plugVars, rCall, tabVars, cacheVars>>

(***************************************************************************)
(* The plugin (src/unnamed/part_005): the before_tool_call hook.           *)
(* What the collaborators answer for a call (validateIntent, allowsIntent, *)
(* validateDAG, the executor's status, an exception from buildDAG) is an   *)
(* input of the call.  A log entry is modelled by the kind of its message. *)
(***************************************************************************)
BrowserGuardConfig(enabled, mode, showPlans, trustedDomains) ==
    [enabled |-> enabled, mode |-> mode, showPlans |-> showPlans,
     trustedDomains |-> trustedDomains]

DEFAULT_CONFIG == BrowserGuardConfig(TRUE, "block", FALSE, <<>>)

NewBrowserGuardPlugin(cfg) == [config |-> cfg, hasAdapter |-> FALSE]

setAdapter(p) == [p EXCEPT !.hasAdapter = TRUE]

NewGuardState == [log |-> <<>>]

\* domain === d || domain.endsWith(`.${d}`)
isTrustedDomain(p, url) ==
    \E i \in DOMAIN p.config.trustedDomains :
        IsSuffix(p.config.trustedDomains[i], extractDomain(url))

NoTransform == [tool |-> None, status |-> None]

ToolCallDecision(allow, reason, transform) ==
    [allow |-> allow, reason |-> reason, transform |-> transform]

AllowCall == ToolCallDecision(TRUE, None, NoTransform)

\* what one call returns and what it pushed onto state.log
Returned(decision, logged) == [decision |-> decision, logged |-> logged]

\* the catch block
PluginCaught(p, logged) ==
    Returned(IF p.config.mode = "block"
             THEN ToolCallDecision(FALSE, "Browser Guard: Internal error", NoTransform)
             ELSE AllowCall,
             logged \o <<"Error in beforeToolCall">>)

\* the part of the hook after the plan is built and validated
PluginRun(p, call, logged) ==
    LET l5 == logged \o <<"Built execution DAG">> IN
    IF p.config.showPlans
      THEN Returned(ToolCallDecision(TRUE, None,
                        [tool |-> "browser_guard_confirm", status |-> None]),
                    l5 \o <<"Plan requires confirmation">>)
    ELSE IF p.hasAdapter
      THEN LET l6 == l5 \o <<"Execution result">> IN
           IF call.status # "complete" /\ p.config.mode = "block"
             THEN Returned(ToolCallDecision(FALSE, "Browser Guard: Execution", NoTransform), l6)
             ELSE Returned(ToolCallDecision(TRUE, None,
                               [tool |-> "browser_guard_result", status |-> call.status]),
                           l6)
    ELSE Returned(AllowCall, l5 \o <<"No browser adapter configured">>)

beforeToolCall(p, call) ==
    IF ~p.config.enabled THEN Returned(AllowCall, <<>>)
    ELSE IF call.tool # "web_fetch" /\ call.tool # "browser" THEN Returned(AllowCall, <<>>)
    ELSE
      LET l0 == <<"Intercepted">> IN
      IF call.url # NoTarget /\ isTrustedDomain(p, call.url)
        THEN Returned(AllowCall, l0 \o <<"trusted domain">>)
      ELSE
        LET l1 == l0 \o <<"Parsed intent">>
            l2 == IF call.intentValid THEN l1 ELSE l1 \o <<"Intent validation failed">>
            l3 == IF call.policyAllowed THEN l2 ELSE l2 \o <<"Policy check failed">>
            l4 == IF call.dagValid THEN l3 ELSE l3 \o <<"DAG validation failed">>
        IN
        IF ~call.intentValid /\ p.config.mode = "block"
          THEN Returned(ToolCallDecision(FALSE, "Browser Guard: Intent validation failed",
                                         NoTransform), l2)
        ELSE IF ~call.policyAllowed /\ p.config.mode = "block"
          THEN Returned(ToolCallDecision(FALSE, "Browser Guard: policy", NoTransform), l3)
        ELSE IF call.buildThrows
          THEN PluginCaught(p, l3)
        ELSE IF ~call.dagValid /\ p.config.mode = "block"
          THEN Returned(ToolCallDecision(FALSE, "Browser Guard: Plan validation failed",
                                         NoTransform), l4)
        ELSE PluginRun(p, call, l4)

\* ---- the plugin as a state machine -------------------------------------
MaxPluginLog == 0    \* a call is made while state.log holds at most this many entries

BrowserGuardConfigs ==
    { BrowserGuardConfig(en, mode, sp, td) :
        en \in BOOLEAN, mode \in {"block", "warn"}, sp \in BOOLEAN,
        td \in {<<>>, <<HostA>>} }

ToolCall(tool, url, intentValid, policyAllowed, buildThrows, dagValid, status) ==
    [tool |-> tool, url |-> url, intentValid |-> intentValid,
     policyAllowed |-> policyAllowed, buildThrows |-> buildThrows,
     dagValid |-> dagValid, status |-> status]

ToolCalls ==
    { ToolCall(tool, url, iv, pa, bt, dv, st) :
        tool \in {"web_fetch", "browser", "exec"},
        url \in {NoTarget, Url("https", HostApiA, "")},
        iv \in BOOLEAN, pa \in BOOLEAN, bt \in BOOLEAN, dv \in BOOLEAN,
        st \in {"complete", "blocked"} }

PlugInit ==
    /\ plugin \in { NewBrowserGuardPlugin(cfg) : cfg \in BrowserGuardConfigs }
    /\ state = NewGuardState
    /\ pCall = NoCall

PSetAdapter ==
    /\ ~plugin.hasAdapter
    /\ plugin' = setAdapter(plugin)
    /\ pCall' = Stale(pCall)
    /\ UNCHANGED <<state, polVars, filtVars, guardVars, execVars, mgrVars, tabVars, cacheVars>>

PBeforeToolCall ==
    /\ Len(state.log) <= MaxPluginLog
    /\ \E call \in ToolCalls :
         LET r == beforeToolCall(plugin, call) IN
           /\ state' = [state EXCEPT !.log = @ \o r.logged]
           /\ pCall' = [called |-> TRUE, fresh |-> TRUE, call |-> call,
                        decision |-> r.decision, logged |-> r.logged]
    /\ UNCHANGED <<plugin, polVars, filtVars, guardVars, execVars, mgrVars, tabVars, cacheVars>>

PlugNext == PSetAdapter \/ PBeforeToolCall

PlugIdle ==
    /\ plugin = NewBrowserGuardPlugin(DEFAULT_CONFIG)
    /\ state = NewGuardState
    /\ pCall = NoCall

(***************************************************************************)
(* Element ref manager: the state machine of one manager and its callers   *)
(***************************************************************************)
MaxCreated == 6        \* snapshots one manager takes

\* the observed element lists, by their length
ElementCounts == {0, 2}

\* ref strings: what createRef prints for versions and refs around the ones
\* in use, and strings parseRef has to tell apart from them
RefStrings ==
    { createRef(v, r) : v \in 0..(MaxCreated + 1), r \in 0..3 }
    \cup { <<"x">>, <<"1", ":">>, <<":", "1">>, <<"1", "1">>, <<"1", ":", "x">>,
           <<"1", ":", "1", ":", "1">>, <<"0", "1", ":", "0", "2">>,
           <<"1", "0", ":", "1">> }

MgrInit ==
    /\ refs = NewElementRefManager
    /\ rCall = NoCall
    /\ issued = <<>>

MCreateSnapshot ==
    /\ Len(issued) < MaxCreated
    /\ \E elements \in ElementCounts :
         /\ refs' = createSnapshot(refs, elements)
         /\ issued' = Append(issued, NewSnapshot(refs, elements))
    /\ rCall' = Stale(rCall)
    /\ UNCHANGED <<dag, config, pc, currentNodeId, context, obs, nextNodeId, trace,
                   clock, result, log>>
    /\ UNCHANGED <<polVars, filtVars, guardVars, plugVars, tabVars, cacheVars>>

MValidateRef ==
    /\ \E refString \in RefStrings :
         rCall' = [called |-> TRUE, fresh |-> TRUE, refString |-> refString,
                   result |-> validateRef(refs, refString)]
    /\ UNCHANGED <<execVars, issued, polVars, filtVars, guardVars, plugVars, tabVars, cacheVars>>

MgrNext == MCreateSnapshot \/ MValidateRef

MgrIdle == rCall = NoCall /\ issued = <<>>

(***************************************************************************)
(* The module-level tables as objects every session shares.                *)
(*                                                                         *)
(* A JavaScript array or object is shared by reference: parseIntent puts   *)
(* the row TASK_ACTIONS[taskType] itself into the intent, instantiateNodes *)
(* puts the template's action object itself into the node.  The model      *)
(* keeps the parts of the tables an operation writes through such a        *)
(* reference: the order of each TASK_ACTIONS row and the target of the     *)
(* navigate action of each template.                                       *)
(***************************************************************************)
TaskTypes == {"search", "extract", "monitor", "interact", "purchase", "login"}

\* TASK_ACTIONS, each row in the order of the source
TaskActionRows ==
    [taskType \in TaskTypes |->
        CASE taskType = "search"   -> <<"navigate", "type", "click", "scroll", "extract">>
          [] taskType = "extract"  -> <<"navigate", "scroll", "extract", "screenshot">>
          [] taskType = "monitor"  -> <<"navigate", "scroll", "extract", "screenshot", "wait">>
          [] taskType = "interact" -> <<"navigate", "click", "scroll", "type", "extract">>
          [] taskType = "purchase" -> <<"navigate", "click", "scroll", "type", "extract">>
          [] taskType = "login"    -> <<"navigate", "click", "type">>]

TemplateNames == {"SEARCH_TEMPLATE", "EXTRACT_TEMPLATE"}

selectTemplate(taskType) ==
    IF taskType = "search" THEN "SEARCH_TEMPLATE" ELSE "EXTRACT_TEMPLATE"

\* the tables as the modules define them
InitialTables ==
    [rules     |-> STATIC_POLICIES,
     actions   |-> TaskActionRows,
     templates |-> [t \in TemplateNames |-> [navigateTarget |-> NoTarget]]]

\* Array.prototype.sort() without a comparator on action names
ActionNamesSorted ==
    <<"click", "extract", "navigate", "screenshot", "scroll", "type", "wait">>
SortNames(names) == SelectSeq(ActionNamesSorted, LAMBDA a : a \in Range(names))

\* new PolicyEngine(intent): this.rules = [...STATIC_POLICIES] is a copy, the
\* pushes and the sort work on the copy
TablesAfterNewPolicyEngine(t, intent) == t

\* addSitePolicies pushes copies of the given rules onto the engine's list
TablesAfterAddSitePolicies(t, policies) == t

\* parseIntent: the intent's allowedActions is the row itself
TablesAfterParseIntent(t, taskType) == t

\* buildDAG: instantiateNodes takes template.action as the node's action and
\* assigns node.action.target when the action is a navigate without target
TablesAfterBuildDAG(t, intent) ==
    [t EXCEPT !.templates[selectTemplate(intent.taskType)].navigateTarget =
        IF @ = NoTarget THEN Url("https", intent.allowedDomains[1], "") ELSE @]

\* the target of the navigate node of the plan buildDAG returns
BuiltNavigateTarget(t, intent) ==
    TablesAfterBuildDAG(t, intent).templates[selectTemplate(intent.taskType)].navigateTarget

\* the caching provider's generatePlan: request.intent.allowedActions.sort()
\* sorts the array in place (allowedDomains is the intent's own array)
TablesAfterCachingGeneratePlan(t, intent) ==
    IF intent.sharesActions
    THEN [t EXCEPT !.actions[intent.taskType] = SortNames(@)]
    ELSE t

\* ---- plans from an LLM response (part_008) ----------------------------
\* Array.prototype.join: the items with the separator between them.  A
\* domain is a sequence of labels, the separator is a label sequence too.
RECURSIVE Join(_, _)
Join(items, separator) ==
    IF Len(items) = 0 THEN <<>>
    ELSE IF Len(items) = 1 THEN <<items[1]>>
    ELSE <<items[1], separator>> \o Join(Tail(items), separator)

Bar == <<"|">>

Constraint(type, rule) == [type |-> type, rule |-> rule]

\* the constraint both extractDAGFromResponse and finalizeDAG build
DomainConstraint(intent) == Constraint("domain", Join(intent.allowedDomains, Bar))

\* a node of the parsed JSON: constraints may be missing
LLMNode(id, hasConstraints, constraints, isTerminal) ==
    [id |-> id, hasConstraints |-> hasConstraints, constraints |-> constraints,
     isTerminal |-> isTerminal]

PlanEdge(from, to) == [from |-> from, to |-> to]

LLMResponse(parses, nodes, edges, hasEntryPoint, entryPoint) ==
    [parses |-> parses, nodes |-> nodes, edges |-> edges,
     hasEntryPoint |-> hasEntryPoint, entryPoint |-> entryPoint]

NoPlan == [nodes |-> <<>>, edges |-> <<>>, entryPoint |-> None, domains |-> <<>>]

\* the loop at the end of extractDAGFromResponse: push the core's constraint
\* unless the node has a constraint of type domain
ExtractedConstraints(constraints, intent) ==
    IF \E i \in 1..Len(constraints) : constraints[i].type = "domain"
    THEN constraints
    ELSE Append(constraints, DomainConstraint(intent))

\* extractDAGFromResponse: {dag} or {error}; a plan keeps the allowed domains
\* of the intent it was given
extractDAGFromResponse(response, intent) ==
    IF ~response.parses THEN [ok |-> FALSE, dag |-> NoPlan]
    ELSE
      [ok  |-> TRUE,
       dag |->
         [nodes |->
            [i \in 1..Len(response.nodes) |->
               [id |-> response.nodes[i].id,
                isTerminal |-> response.nodes[i].isTerminal,
                constraints |->
                    ExtractedConstraints(
                        IF response.nodes[i].hasConstraints
                        THEN response.nodes[i].constraints ELSE <<>>, intent)]],
          edges |-> response.edges,
          entryPoint |->
              IF response.hasEntryPoint THEN response.entryPoint
              ELSE IF Len(response.nodes) > 0 THEN response.nodes[1].id
              ELSE "start",
          domains |-> intent.allowedDomains]]

\* the fixed point of the reachability loop of validateLLMResponse
RECURSIVE PlanReachable(_, _)
PlanReachable(edges, reached) ==
    LET more == { edges[i].to : i \in { j \in 1..Len(edges) : edges[j].from \in reached } }
    IN  IF more \subseteq reached THEN reached
        ELSE PlanReachable(edges, reached \cup more)

validateLLMResponse(plan) ==
    LET nodeIds == { plan.nodes[i].id : i \in 1..Len(plan.nodes) }
    IN  /\ Len(plan.nodes) > 0
        /\ plan.entryPoint \in nodeIds
        /\ \E i \in 1..Len(plan.nodes) : plan.nodes[i].isTerminal
        /\ \A i \in 1..Len(plan.edges) :
              plan.edges[i].from \in nodeIds /\ plan.edges[i].to \in nodeIds
        /\ \A i \in 1..Len(plan.nodes) :
              ~plan.nodes[i].isTerminal =>
                  \E j \in 1..Len(plan.edges) : plan.edges[j].from = plan.nodes[i].id
        /\ nodeIds \subseteq PlanReachable(plan.edges, {plan.entryPoint})

\* LLMPlanner.finalizeDAG
finalizeDAG(plan, intent) ==
    [plan EXCEPT
       !.nodes = [i \in 1..Len(plan.nodes) |->
                    [plan.nodes[i] EXCEPT !.constraints =
                        Append(SelectSeq(@, LAMBDA c : c.type # "domain"),
                               DomainConstraint(intent))]],
       !.domains = intent.allowedDomains]

\* CallableProvider.generatePlan: the extracted plan, or an exception
ProviderGeneratePlan(response, intent) ==
    LET extraction == extractDAGFromResponse(response, intent)
    IN  [threw |-> ~extraction.ok, dag |-> extraction.dag]

\* ---- the template planner (part_007) -----------------------------------
TemplateNode(id, type, isTerminal, terminalResult) ==
    [id |-> id, type |-> type, isTerminal |-> isTerminal,
     terminalResult |-> terminalResult]

TemplateEdge(from, to, conditionType, priority) ==
    [from |-> from, to |-> to, conditionType |-> conditionType, priority |-> priority]

\* SEARCH_TEMPLATE and EXTRACT_TEMPLATE: ids, action types, terminal marks
TemplateNodes(name) ==
    IF name = "SEARCH_TEMPLATE"
    THEN << TemplateNode("navigate_search", "navigate", FALSE, None),
            TemplateNode("enter_query", "type", FALSE, None),
            TemplateNode("submit_search", "click", FALSE, None),
            TemplateNode("extract_results", "extract", TRUE, "success"),
            TemplateNode("error_captcha", "extract", TRUE, "abort"),
            TemplateNode("error_no_results", "extract", TRUE, "error") >>
    ELSE << TemplateNode("navigate_page", "navigate", FALSE, None),
            TemplateNode("dismiss_popups", "click", FALSE, None),
            TemplateNode("scroll_page", "scroll", FALSE, None),
            TemplateNode("extract_content", "extract", TRUE, "success"),
            TemplateNode("error_not_found", "extract", TRUE, "error"),
            TemplateNode("error_access_denied", "extract", TRUE, "error"),
            TemplateNode("error_login_required", "extract", TRUE, "abort") >>

TemplateEdges(name) ==
    IF name = "SEARCH_TEMPLATE"
    THEN << TemplateEdge("navigate_search", "enter_query", "default", 10),
            TemplateEdge("navigate_search", "error_captcha", "element_present", 1),
            TemplateEdge("enter_query", "submit_search", "default", 10),
            TemplateEdge("submit_search", "extract_results", "element_present", 5),
            TemplateEdge("submit_search", "error_captcha", "element_present", 1),
            TemplateEdge("submit_search", "error_no_results", "content_match", 3) >>
    ELSE << TemplateEdge("navigate_page", "error_not_found", "content_match", 1),
            TemplateEdge("navigate_page", "error_access_denied", "content_match", 1),
            TemplateEdge("navigate_page", "error_login_required", "element_present", 2),
            TemplateEdge("navigate_page", "dismiss_popups", "element_present", 3),
            TemplateEdge("navigate_page", "scroll_page", "default", 10),
            TemplateEdge("dismiss_popups", "scroll_page", "default", 10),
            TemplateEdge("scroll_page", "extract_content", "default", 10) >>

\* id.startsWith('error_'), over the ids of the templates
StartsWithError(id) ==
    id \in {"error_captcha", "error_no_results", "error_not_found",
            "error_access_denied", "error_login_required"}

\* DAGBuilderOptions: each of the three lists may be missing
DAGBuilderOptions(hasTargets, extractionTargets, hasOutcomes, additionalOutcomes, hasConstraints, constraints) ==
    [hasTargets |-> hasTargets, extractionTargets |-> extractionTargets,
     hasOutcomes |-> hasOutcomes, additionalOutcomes |-> additionalOutcomes,
     hasConstraints |-> hasConstraints, constraints |-> constraints]

NoOptions == DAGBuilderOptions(FALSE, <<>>, FALSE, <<>>, FALSE, <<>>)

\* the template's own lists: the first search node and the first extract
\* node expect an outcome, extract_results has an extraction target
TemplateOutcomes(id) ==
    IF id \in {"navigate_search", "submit_search", "navigate_page"}
    THEN <<"template outcome">> ELSE <<>>
TemplateTargets(id) == IF id = "extract_results" THEN <<"results">> ELSE <<>>

RECURSIVE Repeat(_, _)
Repeat(item, n) == IF n = 0 THEN <<>> ELSE <<item>> \o Repeat(item, n - 1)

\* variant: the navigate target is always taken from the intent of the call
NavigateTargetOfIntent(t, intent) == Url("https", intent.allowedDomains[1], "")

\* instantiateNodes, then the loop of buildDAG that pushes the domain
\* constraint: without options.constraints every node gets a list of its
\* own, with it all nodes share the one list that receives every push
instantiateNodes(t, intent, options) ==
    LET templates == TemplateNodes(selectTemplate(intent.taskType))
    IN  [i \in 1..Len(templates) |->
          [id |-> templates[i].id,
           action |-> [type |-> templates[i].type,
                       target |-> IF templates[i].type = "navigate"
                                  THEN BuiltNavigateTarget(t, intent) ELSE NoTarget],
           expectedOutcomes |->
               TemplateOutcomes(templates[i].id) \o
               (IF options.hasOutcomes THEN options.additionalOutcomes ELSE <<>>),
           extractionTargets |->
               TemplateTargets(templates[i].id) \o
               (IF options.hasTargets /\ templates[i].type = "extract"
                THEN options.extractionTargets ELSE <<>>),
           constraints |->
               IF options.hasConstraints
               THEN options.constraints \o Repeat(DomainConstraint(intent), Len(templates))
               ELSE <<DomainConstraint(intent)>>,
           isTerminal |-> templates[i].isTerminal,
           terminalResult |-> templates[i].terminalResult]]

\* variant: only the first edge of the template is instantiated
instantiateEdgesFirstOnly(templates) ==
    [i \in 1..1 |->
        [from |-> templates[i].from, to |-> templates[i].to,
         conditionType |-> templates[i].conditionType,
         priority |-> templates[i].priority]]

instantiateEdges(templates) ==
    [i \in 1..Len(templates) |->
        [from |-> templates[i].from, to |-> templates[i].to,
         conditionType |-> templates[i].conditionType,
         priority |-> templates[i].priority]]

\* buildDAG on the tables as they are when it is called
buildDAG(t, intent, options) ==
    LET nodes == instantiateNodes(t, intent, options)
        first == { i \in 1..Len(nodes) : ~StartsWithError(nodes[i].id) }
    IN  [nodes |-> nodes,
         edges |-> instantiateEdges(TemplateEdges(selectTemplate(intent.taskType))),
         entryPoint |-> IF first # {} THEN nodes[Min(first)].id ELSE nodes[1].id,
         domains |-> intent.allowedDomains]

\* variant: unreachable nodes are not looked for
validateDAGNoReachability(plan) ==
    LET nodeIds == { plan.nodes[i].id : i \in 1..Len(plan.nodes) }
    IN  /\ plan.entryPoint \in nodeIds
        /\ \A i \in 1..Len(plan.edges) :
              plan.edges[i].from \in nodeIds /\ plan.edges[i].to \in nodeIds
        /\ \A i \in 1..Len(plan.nodes) :
              ~plan.nodes[i].isTerminal =>
                  \E j \in 1..Len(plan.edges) : plan.edges[j].from = plan.nodes[i].id
        /\ \E i \in 1..Len(plan.nodes) : plan.nodes[i].isTerminal

\* validateDAG: valid exactly when no issue was pushed
validateDAG(plan) ==
    LET nodeIds == { plan.nodes[i].id : i \in 1..Len(plan.nodes) }
    IN  /\ plan.entryPoint \in nodeIds
        /\ \A i \in 1..Len(plan.edges) :
              plan.edges[i].from \in nodeIds /\ plan.edges[i].to \in nodeIds
        /\ \A i \in 1..Len(plan.nodes) :
              ~plan.nodes[i].isTerminal =>
                  \E j \in 1..Len(plan.edges) : plan.edges[j].from = plan.nodes[i].id
        /\ \E i \in 1..Len(plan.nodes) : plan.nodes[i].isTerminal
        /\ nodeIds \subseteq PlanReachable(plan.edges, {plan.entryPoint})

\* What the provider returns on its k-th call: answers lists its first
\* answers, and it repeats the last of them from then on.
AnswerAt(answers, k) == answers[Min({k, Len(answers)})]

\* variant: a result the provider returned is accepted as it is
AttemptAcceptedUnvalidated(response, intent) ==
    ~ProviderGeneratePlan(response, intent).threw

\* one pass of the retry loop: the provider returned and the validator
\* found no issue
AttemptAccepted(response, intent) ==
    /\ ~ProviderGeneratePlan(response, intent).threw
    /\ validateLLMResponse(ProviderGeneratePlan(response, intent).dag)

\* lastError after a pass that was not accepted
AttemptError(response, intent) ==
    IF ProviderGeneratePlan(response, intent).threw
    THEN "Failed to extract DAG" ELSE "Validation failed"

NoError == "undefined"

\* the retry loop of LLMPlanner.generatePlan from its k-th pass on: the
\* pass that was accepted, or 0 when attempts reached maxRetries
RECURSIVE PlannerAttempt(_, _, _, _)
PlannerAttempt(answers, intent, maxRetries, k) ==
    IF k > maxRetries THEN 0
    ELSE IF AttemptAccepted(AnswerAt(answers, k), intent) THEN k
    ELSE PlannerAttempt(answers, intent, maxRetries, k + 1)

\* variant: the error carries no cause
PlanGenerationErrorNoCause(cause, attempts) ==
    [name |-> "PlanGenerationError", cause |-> NoError, attempts |-> attempts]

PlanGenerationError(cause, attempts) ==
    [name |-> "PlanGenerationError", cause |-> cause, attempts |-> attempts]

NoThrow == [name |-> None, cause |-> NoError, attempts |-> 0]

\* LLMPlanner.generatePlan.  calls counts the calls of provider.generatePlan.
LLMGeneratePlan(t, answers, intent, maxRetries, fallbackToTemplate) ==
    LET k == PlannerAttempt(answers, intent, maxRetries, 1)
        lastError == IF maxRetries = 0 THEN NoError
                     ELSE AttemptError(AnswerAt(answers, maxRetries), intent)
    IN  IF k > 0
        THEN [threw |-> FALSE, error |-> NoThrow, usedFallback |-> FALSE,
              attempts |-> k, calls |-> k,
              response |-> AnswerAt(answers, k),
              dag |-> finalizeDAG(ProviderGeneratePlan(AnswerAt(answers, k), intent).dag,
                                  intent)]
        ELSE [threw |-> ~fallbackToTemplate,
              error |-> IF fallbackToTemplate THEN NoThrow
                        ELSE PlanGenerationError(lastError, maxRetries),
              usedFallback |-> fallbackToTemplate,
              attempts |-> maxRetries, calls |-> maxRetries,
              response |-> AnswerAt(answers, 1),
              dag |-> IF fallbackToTemplate THEN buildDAG(t, intent, NoOptions) ELSE NoPlan]

\* every node of the plan has the constraint that enumerates the domains of
\* the plan's intent
DomainConstrained(plan) ==
    \A i \in 1..Len(plan.nodes) :
        \E j \in 1..Len(plan.nodes[i].constraints) :
            plan.nodes[i].constraints[j] = Constraint("domain", Join(plan.domains, Bar))

\* every domain constraint of the plan enumerates the domains of its intent
OnlyCoreDomainConstraints(plan) ==
    \A i \in 1..Len(plan.nodes) :
        \A j \in 1..Len(plan.nodes[i].constraints) :
            plan.nodes[i].constraints[j].type = "domain" =>
                plan.nodes[i].constraints[j].rule = Join(plan.domains, Bar)

\* the response gave some node a domain constraint of its own
SuppliedDomainConstraint(response) ==
    \E i \in 1..Len(response.nodes) :
        /\ response.nodes[i].hasConstraints
        /\ \E j \in 1..Len(response.nodes[i].constraints) :
              response.nodes[i].constraints[j].type = "domain"

\* ---- the sessions as a state machine -----------------------------------
NodeConstraintChoices ==
    { <<>>,
      <<Constraint("domain", <<HostEvil>>)>>,
      <<Constraint("domain", <<HostA>>)>>,
      <<Constraint("rate_limit", <<>>)>>,
      <<Constraint("rate_limit", <<>>), Constraint("domain", <<HostEvil>>)>> }

\* what the model may answer: one terminal node; two nodes in a chain, the
\* edge to the second node or to a node that is not there; no terminal
\* node; no nodes; text that is not JSON
LLMResponses ==
    { LLMResponse(TRUE, <<LLMNode("n1", TRUE, c, TRUE)>>, <<>>, TRUE, "n1") :
        c \in NodeConstraintChoices }
    \cup
    { LLMResponse(TRUE, <<LLMNode("n1", TRUE, c, FALSE), LLMNode("n2", FALSE, <<>>, TRUE)>>,
                  <<PlanEdge("n1", "n2")>>, FALSE, "n1") :
        c \in NodeConstraintChoices }
    \cup
    { LLMResponse(TRUE, <<LLMNode("n1", FALSE, <<>>, TRUE)>>, <<>>, FALSE, "n1"),
      LLMResponse(TRUE, <<LLMNode("n1", FALSE, <<>>, FALSE), LLMNode("n2", FALSE, <<>>, TRUE)>>,
                  <<PlanEdge("n1", "n3")>>, TRUE, "n1"),
      LLMResponse(TRUE, <<LLMNode("n1", FALSE, <<>>, FALSE)>>, <<PlanEdge("n1", "n1")>>,
                  FALSE, "n1"),
      LLMResponse(TRUE, <<>>, <<>>, FALSE, "n1"),
      LLMResponse(FALSE, <<>>, <<>>, FALSE, "n1") }

\* the answers over the attempts of one LLMPlanner.generatePlan: one
\* attempt, or a refused answer followed by a second attempt
MaxRetries == 2

PlannerAnswers ==
    LET refused == { r \in LLMResponses :
                        \/ ~r.parses
                        \/ ~validateLLMResponse(
                               extractDAGFromResponse(r, [allowedDomains |-> <<HostA>>]).dag) }
        second  == { r \in LLMResponses :
                        \/ ~r.parses
                        \/ /\ Len(r.nodes) = 2
                           /\ \E j \in 1..Len(r.nodes[1].constraints) :
                                 r.nodes[1].constraints[j].type = "domain" }
    IN  { <<r>> : r \in LLMResponses } \cup
        { <<r1, r2>> : r1 \in refused, r2 \in second }

PlannerIntents ==
    { [taskType |-> "extract", allowedDomains |-> ds, sharesActions |-> FALSE] :
        ds \in {<<HostA>>, <<HostEvil, HostA>>} }

\* sharesActions: the intent came from parseIntent, so that its
\* allowedActions is the TASK_ACTIONS row; otherwise the caller built it
TableIntents ==
    { [taskType |-> ty, allowedDomains |-> ds, sharesActions |-> sh] :
        ty \in {"search", "extract"},
        ds \in {<<HostA>>, <<HostEvil, HostA>>},
        sh \in BOOLEAN }

BuilderOptions ==
    { NoOptions,
      DAGBuilderOptions(TRUE, <<"price">>, TRUE, <<"extra outcome">>,
                        TRUE, <<Constraint("rate_limit", <<>>)>>) }

\* the intents plans are built for: every task type
BuildIntents ==
    TableIntents \cup
    { [taskType |-> ty, allowedDomains |-> ds, sharesActions |-> FALSE] :
        ty \in TaskTypes, ds \in {<<HostA>>, <<HostEvil, HostA>>} }

TabInit ==
    /\ tables = InitialTables
    /\ tOp = [op |-> None]

TNewPolicyEngine ==
    /\ \E intent \in TableIntents :
         /\ tables' = TablesAfterNewPolicyEngine(tables, intent)
         /\ tOp' = [op |-> "new PolicyEngine", intent |-> intent]
    /\ UNCHANGED <<polVars, filtVars, guardVars, execVars, plugVars, mgrVars, cacheVars>>

TAddSitePolicies ==
    /\ \E html \in Htmls :
         /\ tables' = TablesAfterAddSitePolicies(tables, parseSitePolicies(html, HostA))
         /\ tOp' = [op |-> "addSitePolicies", html |-> html]
    /\ UNCHANGED <<polVars, filtVars, guardVars, execVars, plugVars, mgrVars, cacheVars>>

TParseIntent ==
    /\ \E taskType \in TaskTypes :
         /\ tables' = TablesAfterParseIntent(tables, taskType)
         /\ tOp' = [op |-> "parseIntent", taskType |-> taskType,
                    allowedActions |-> tables.actions[taskType]]
    /\ UNCHANGED <<polVars, filtVars, guardVars, execVars, plugVars, mgrVars, cacheVars>>

TBuildDAG ==
    /\ \E intent \in BuildIntents, options \in BuilderOptions :
         /\ tables' = TablesAfterBuildDAG(tables, intent)
         /\ tOp' = [op |-> "buildDAG", intent |-> intent, options |-> options,
                    dag |-> buildDAG(tables, intent, options)]
    /\ UNCHANGED <<polVars, filtVars, guardVars, execVars, plugVars, mgrVars, cacheVars>>

TCachingGeneratePlan ==
    /\ \E intent \in TableIntents :
         /\ tables' = TablesAfterCachingGeneratePlan(tables, intent)
         /\ tOp' = [op |-> "caching generatePlan", intent |-> intent]
    /\ UNCHANGED <<polVars, filtVars, guardVars, execVars, plugVars, mgrVars, cacheVars>>

TProviderGeneratePlan ==
    /\ \E intent \in PlannerIntents, response \in LLMResponses :
         /\ tables' = tables
         /\ tOp' = [op |-> "provider generatePlan", intent |-> intent,
                    response |-> response,
                    result |-> ProviderGeneratePlan(response, intent)]
    /\ UNCHANGED <<polVars, filtVars, guardVars, execVars, plugVars, mgrVars, cacheVars>>

TLLMGeneratePlan ==
    /\ \E intent \in PlannerIntents, answers \in PlannerAnswers,
          retries \in 0..MaxRetries, fallbackToTemplate \in BOOLEAN :
         LET planResult == LLMGeneratePlan(tables, answers, intent, retries, fallbackToTemplate)
         IN  /\ tables' = IF planResult.usedFallback
                          THEN TablesAfterBuildDAG(tables, intent) ELSE tables
             /\ tOp' = [op |-> "LLMPlanner generatePlan", intent |-> intent,
                        answers |-> answers, maxRetries |-> retries,
                        fallbackToTemplate |-> fallbackToTemplate,
                        result |-> planResult]
    /\ UNCHANGED <<polVars, filtVars, guardVars, execVars, plugVars, mgrVars, cacheVars>>

TabNext ==
    \/ TNewPolicyEngine \/ TAddSitePolicies \/ TParseIntent \/ TBuildDAG
    \/ TCachingGeneratePlan

PlannerNext == TProviderGeneratePlan \/ TLLMGeneratePlan

\* ---- the validator on arbitrary small graphs ---------------------------
MaxPlanEdges == 3

PlanNode(id, isTerminal) == [id |-> id, isTerminal |-> isTerminal]

\* node lists n1, n1 n2, n1 n2 n3 (or none) with any terminal marks
SmallNodeLists ==
    { <<>> } \cup
    { <<PlanNode("n1", t1)>> : t1 \in BOOLEAN } \cup
    { <<PlanNode("n1", t1), PlanNode("n2", t2)>> : t1 \in BOOLEAN, t2 \in BOOLEAN } \cup
    { <<PlanNode("n1", t1), PlanNode("n2", t2), PlanNode("n3", t3)>> :
        t1 \in BOOLEAN, t2 \in BOOLEAN, t3 \in BOOLEAN }

\* the edges a graph may have, in a fixed order; n4 is never a node
CandidateEdges ==
    << PlanEdge("n1", "n2"), PlanEdge("n2", "n3"), PlanEdge("n1", "n3"),
       PlanEdge("n3", "n1"), PlanEdge("n2", "n4"), PlanEdge("n4", "n1") >>

SmallEdgeLists ==
    { SelectSeq(CandidateEdges, LAMBDA e : e \in chosen) :
        chosen \in { c \in SUBSET Range(CandidateEdges) : Cardinality(c) <= MaxPlanEdges } }

SmallDags ==
    { [nodes |-> ns, edges |-> es, entryPoint |-> entry] :
        ns \in SmallNodeLists, es \in SmallEdgeLists, entry \in {"n1", "n4"} }

TValidateDAG ==
    /\ \E plan \in SmallDags :
         tOp' = [op |-> "validateDAG", dag |-> plan,
                 result |-> [valid |-> validateDAG(plan)]]
    /\ UNCHANGED <<tables, polVars, filtVars, guardVars, execVars, plugVars, mgrVars, cacheVars>>

ValidatorNext == TValidateDAG

\* ---- a filter and a policy engine made from one intent ------------------
HostGithubApi     == <<"api", "github", "com">>
HostGithubContent == <<"githubusercontent", "com">>
HostGitlabNet     == <<"gitlab", "net">>

SessionIntents ==
    { Intent(ty, ds, 1) :
        ty \in {"extract", "interact"},
        ds \in {<<HostA>>, <<HostGithub>>, <<HostA, HostGithub>>, <<HostGitlab>>} }

SessionHosts ==
    { HostA, HostApiA, HostEvil, HostGithub, HostGithubApi, HostGithubContent,
      HostGitlabNet, <<"raw", "githubusercontent", "com">> }

\* a GET request for a page of the host
PageRequest(host) ==
    [url |-> ReqUrl("https", host, <<"page">>), method |-> "GET", body |-> NoBody,
     resourceType |-> None]

\* createFilterFromIntent(intent).filter(request, currentDomain) next to
\* new PolicyEngine(intent).allows(navigate to the host, context)
TFilterFromIntent ==
    /\ \E intent \in SessionIntents, host \in SessionHosts,
          currentDomain \in {NoHost, HostA, HostGithub} :
         tOp' = [op |-> "createFilterFromIntent", intent |-> intent, host |-> host,
                 currentDomain |-> currentDomain,
                 allowlist |-> predictAllowlistFromIntent(intent),
                 decision |-> filter(createFilterFromIntent(intent), PageRequest(host),
                                     currentDomain),
                 navigate |-> allows(NewPolicyEngine(intent),
                                     Action("navigate", Url("https", host, ""), <<>>),
                                     Ctx(Url("https", intent.allowedDomains[1], "")))]
    /\ UNCHANGED <<tables, polVars, filtVars, guardVars, execVars, plugVars, mgrVars, cacheVars>>

SessionNext == TFilterFromIntent

\* ---- one caching provider and its callers (part_009) --------------------
MaxHanded == 3

\* the inner provider is a mock provider with a fixed answer
InnerResponse ==
    LLMResponse(TRUE, <<LLMNode("start", TRUE, <<>>, FALSE), LLMNode("end", TRUE, <<>>, TRUE)>>,
                <<PlanEdge("start", "end")>>, TRUE, "start")

CacheIntents ==
    { [goal |-> g, taskType |-> "extract", allowedDomains |-> <<HostA>>,
       sharesActions |-> sh] : g \in {"goal 1", "goal 2"}, sh \in BOOLEAN }

\* JSON.stringify({goal, taskType, allowedDomains: sorted, allowedActions:
\* sorted}); the intents of the model have one allowed domain
CacheKey(intent) ==
    [goal |-> intent.goal, taskType |-> intent.taskType,
     allowedDomains |-> intent.allowedDomains,
     allowedActions |-> SortNames(TaskActionRows[intent.taskType])]

CacheHas(c, key) == \E i \in 1..Len(c) : c[i].key = key
CacheGet(c, key) == c[CHOOSE i \in 1..Len(c) : c[i].key = key].ref

\* the caching provider's generatePlan on the heap h and the Map c: on a hit
\* a new object, the JSON copy of the cached plan; on a miss the object the
\* inner provider returned, which is also what the Map then holds
cachingGeneratePlan(h, c, intent) ==
    LET key == CacheKey(intent) IN
    IF CacheHas(c, key)
    THEN [heap |-> Append(h, h[CacheGet(c, key)]), cache |-> c, ref |-> Len(h) + 1]
    ELSE [heap |-> Append(h, ProviderGeneratePlan(InnerResponse, intent).dag),
          cache |-> Append(c, [key |-> key, ref |-> Len(h) + 1]),
          ref |-> Len(h) + 1]

CacheInit ==
    /\ heap = <<>>
    /\ cache = <<>>
    /\ handed = <<>>

CGeneratePlan ==
    /\ Len(handed) < MaxHanded
    /\ \E intent \in CacheIntents :
         LET r == cachingGeneratePlan(heap, cache, intent) IN
         /\ heap' = r.heap
         /\ cache' = r.cache
         /\ handed' = Append(handed, [ref |-> r.ref, goal |-> intent.goal,
                                      modified |-> FALSE])
         /\ tables' = TablesAfterCachingGeneratePlan(tables, intent)
         /\ tOp' = [op |-> "caching generatePlan", intent |-> intent]
    /\ UNCHANGED <<polVars, filtVars, guardVars, execVars, plugVars, mgrVars>>

\* a caller changes the plan it was handed: result.dag.nodes[0].id = 'modified'
CModifyPlan ==
    /\ \E i \in 1..Len(handed) :
         /\ ~handed[i].modified
         /\ heap' = [heap EXCEPT ![handed[i].ref].nodes[1].id = "modified"]
         /\ handed' = [handed EXCEPT ![i].modified = TRUE]
    /\ UNCHANGED <<cache, tabVars, polVars, filtVars, guardVars, execVars, plugVars, mgrVars>>

(***************************************************************************)
(* Task parser: parseIntent and validateIntent (task-parser.ts)            *)
(*                                                                         *)
(* A request is a sequence of tokens separated by blanks: a plain word, a  *)
(* bare host ("api.a.com") or a URL ("https://api.a.com/...").  A host is  *)
(* the sequence of its labels.                                             *)
(***************************************************************************)
WordToken(w)    == [kind |-> "word", text |-> w, host |-> NoHost]
HostToken(host) == [kind |-> "host", text |-> "", host |-> host]
UrlToken(host)  == [kind |-> "url", text |-> "", host |-> host]

\* the words of the request a \b...\b pattern can match: the labels of a
\* host are words, and so is the scheme of a URL
RECURSIVE RequestWords(_)
RequestWords(request) ==
    IF request = <<>> THEN <<>>
    ELSE LET tok == Head(request) IN
         (CASE tok.kind = "word" -> <<Lower(tok.text)>>
            [] tok.kind = "host" -> tok.host
            [] tok.kind = "url"  -> <<"https">> \o tok.host)
         \o RequestWords(Tail(request))

\* TASK_PATTERNS, in order; each alternative of a pattern is a word
TASK_PATTERNS ==
    << [words |-> {"search", "find", "lookup", "google"}, taskType |-> "search"],
       [words |-> {"price", "cost", "buy", "purchase", "order"}, taskType |-> "purchase"],
       [words |-> {"extract", "scrape", "grab", "pull"}, taskType |-> "extract"],
       [words |-> {"login", "signin", "authenticate"}, taskType |-> "login"],
       [words |-> {"check", "monitor", "watch", "track"}, taskType |-> "monitor"],
       [words |-> {"click", "fill", "submit", "interact"}, taskType |-> "interact"] >>

\* inferTaskType: the first pattern that matches, 'extract' when none does
inferTaskType(request) ==
    LET hits == { i \in 1..Len(TASK_PATTERNS) :
                    TASK_PATTERNS[i].words \cap Range(RequestWords(request)) # {} }
    IN IF hits = {} THEN "extract"
       ELSE TASK_PATTERNS[CHOOSE i \in hits : \A j \in hits : i <= j].taskType

\* the top-level domains of domainPattern
DomainPatternTlds == {"com", "org", "net", "io", "ai", "co", "edu", "gov"}

\* the matches of domainPattern in one host, left to right without overlap:
\* a label followed by one of the top-level domains
RECURSIVE DomainMentions(_)
DomainMentions(host) ==
    IF Len(host) < 2 THEN <<>>
    ELSE IF host[2] \in DomainPatternTlds
         THEN << <<host[1], host[2]>> >> \o DomainMentions(SubSeq(host, 3, Len(host)))
         ELSE DomainMentions(Tail(host))

\* the matches of urlPattern in the request: the host of every URL
RECURSIVE UrlHosts(_)
UrlHosts(request) ==
    IF request = <<>> THEN <<>>
    ELSE (IF Head(request).kind = "url" THEN <<Head(request).host>> ELSE <<>>)
         \o UrlHosts(Tail(request))

\* the matches of domainPattern in the request (URLs included)
RECURSIVE RequestMentions(_)
RequestMentions(request) ==
    IF request = <<>> THEN <<>>
    ELSE (IF Head(request).kind \in {"host", "url"}
          THEN DomainMentions(Head(request).host) ELSE <<>>)
         \o RequestMentions(Tail(request))

\* domain.startsWith('www.')
StartsWithWww(domain) == Len(domain) >= 2 /\ domain[1] = "www"

WwwOf(domain) == <<"www">> \o domain

HostRawGithub == <<"raw", "githubusercontent", "com">>

\* what the loop over [...domains] adds for one domain of the snapshot
RelatedDomains(domain) ==
    (IF ~StartsWithWww(domain) THEN <<WwwOf(domain)>> ELSE <<>>)
    \o (IF Contains(domain, HostGithub) THEN <<HostRawGithub, HostGithubApi>> ELSE <<>>)

RECURSIVE AllRelatedDomains(_)
AllRelatedDomains(domains) ==
    IF domains = <<>> THEN <<>>
    ELSE RelatedDomains(Head(domains)) \o AllRelatedDomains(Tail(domains))

HostGoogle == <<"google", "com">>

\* extractDomains(request, extraDomains): a Set keeps insertion order
extractDomains(request, extraDomains) ==
    LET found == Dedupe(extraDomains \o UrlHosts(request) \o RequestMentions(request))
        all   == Dedupe(found \o AllRelatedDomains(found))
    IN IF all = <<>> THEN <<WwwOf(HostGoogle), HostGoogle>> ELSE all

\* detectSensitiveData: the names of the patterns that match, in the order
\* of the pattern list (a credit card number is a word of sixteen digits)
CardNumber == "4111111111111111"
detectSensitiveData(request) ==
    LET words == Range(RequestWords(request)) IN
    (IF CardNumber \in words THEN <<"credit_card">> ELSE <<>>)
    \o (IF "password" \in words THEN <<"password">> ELSE <<>>)
    \o (IF "secret" \in words THEN <<"secret">> ELSE <<>>)

\* the timeout column of TASK_CONSTRAINTS, in ticks rounded up: every
\* default is at most one tick
DefaultTimeout(taskType) == TimeoutCap

ParseOptions(extraDomains, hasTimeout, timeout) ==
    [extraDomains |-> extraDomains, hasTimeout |-> hasTimeout, timeout |-> timeout]
NoParseOptions == ParseOptions(<<>>, FALSE, 0)

\* parseIntent(request, options)
parseIntent(request, options) ==
    LET taskType == inferTaskType(request) IN
    [present |-> TRUE,
     taskType |-> taskType,
     allowedDomains |-> extractDomains(request, options.extraDomains),
     allowedActions |-> TASK_ACTIONS(taskType),
     sensitiveData |-> detectSensitiveData(request),
     maxDepth |-> TASK_CONSTRAINTS(taskType).maxDepth,
     timeout |-> IF options.hasTimeout THEN options.timeout ELSE DefaultTimeout(taskType),
     originalRequest |-> request]

\* domain.length: the labels and the dots between them
RECURSIVE DomainLength(_)
DomainLength(domain) ==
    IF domain = <<>> THEN 0
    ELSE IF Len(domain) = 1 THEN Len(domain[1])
    ELSE Len(domain[1]) + 1 + DomainLength(Tail(domain))

\* validateIntent(intent): the issues in the order the checks push them
validateIntent(intent) ==
    LET issues ==
          (IF intent.taskType = "login" /\ "password" \in Range(intent.sensitiveData)
           THEN <<"login with password">> ELSE <<>>)
          \o (IF intent.taskType = "purchase" /\ "credit_card" \in Range(intent.sensitiveData)
              THEN <<"purchase with credit card">> ELSE <<>>)
          \o (IF Len(intent.allowedDomains) = 0 THEN <<"no domains">> ELSE <<>>)
          \o SelectSeq([i \in 1..Len(intent.allowedDomains) |->
                          IF DomainLength(intent.allowedDomains[i]) < 4
                             \/ intent.allowedDomains[i] = <<"*">>
                          THEN "domain too broad" ELSE ""],
                       LAMBDA x : x # "")
          \o (IF TimeoutIssue(intent) THEN <<"timeout">> ELSE <<>>)
    IN [valid |-> issues = <<>>, issues |-> issues]

\* ---- the requests and options the parser is applied to ------------------
HostWwwA  == <<"www", "a", "com">>
HostShort == <<"a">>

RequestTokens ==
    { WordToken("Search"), WordToken("extract"), WordToken("login"),
      WordToken("buy"), WordToken("password"), WordToken(CardNumber),
      WordToken("the"),
      HostToken(HostA), HostToken(HostGithub), HostToken(HostWwwA),
      UrlToken(HostApiA), UrlToken(HostShort) }

Requests ==
    {<<>>} \cup { <<a>> : a \in RequestTokens }
           \cup { <<a, b>> : a \in RequestTokens, b \in RequestTokens }

ParseOptionChoices ==
    { NoParseOptions, ParseOptions(<<HostEvil>>, FALSE, 0),
      ParseOptions(<<>>, TRUE, 2) }

\* const intent = parseIntent(request, options); validateIntent(intent)
TParseRequest ==
    /\ \E request \in Requests, options \in ParseOptionChoices :
         LET intent == parseIntent(request, options) IN
         /\ tables' = TablesAfterParseIntent(tables, intent.taskType)
         /\ tOp' = [op |-> "parseRequest", request |-> request, options |-> options,
                    intent |-> intent, validation |-> validateIntent(intent)]
    /\ UNCHANGED <<polVars, filtVars, guardVars, execVars, plugVars, mgrVars, cacheVars>>

ParserNext == TParseRequest

(***************************************************************************)
(* Bulk actions: canBatchActions (part_010)                                *)
(***************************************************************************)
BulkAction(type, ref) == [type |-> type, ref |-> ref]

\* the snapshot versions of the refs that parse (new Set<number>())
BatchVersions(actions) ==
    { parseRef(actions[i].ref).version :
        i \in { j \in 1..Len(actions) : parseRef(actions[j].ref).ok } }

CanBatch(canBatch, reason) == [canBatch |-> canBatch, reason |-> reason]

\* canBatchActions(actions)
canBatchActions(actions) ==
    IF Len(actions) = 0 THEN CanBatch(FALSE, "No actions to batch")
    ELSE IF Len(actions) = 1 THEN CanBatch(TRUE, None)
    ELSE IF \E i \in 1..Len(actions) : actions[i].type = "navigate"
         THEN CanBatch(FALSE, "Cannot batch navigation actions")
    ELSE IF Cardinality(BatchVersions(actions)) > 1
         THEN CanBatch(FALSE, "Actions reference different snapshot versions")
    ELSE CanBatch(TRUE, None)

BulkActions ==
    { BulkAction(type, ref) :
        type \in {"type", "click", "navigate"},
        ref \in { createRef(1, 5), createRef(1, 6), createRef(2, 6), <<"x">> } }

BulkActionLists ==
    {<<>>} \cup { <<a>> : a \in BulkActions }
           \cup { <<a, b>> : a \in BulkActions, b \in BulkActions }

TCanBatchActions ==
    /\ \E actions \in BulkActionLists :
         tOp' = [op |-> "canBatchActions", actions |-> actions,
                 answer |-> canBatchActions(actions)]
    /\ UNCHANGED <<tables, polVars, filtVars, guardVars, execVars, plugVars, mgrVars, cacheVars>>

BulkNext == TCanBatchActions

(***************************************************************************)
(* The plugin with its collaborators: the intent of a call is parsed from  *)
(* the call's context and target, and validateIntent, allowsIntent,        *)
(* buildDAG and validateDAG answer for that intent.  The status of the     *)
(* execution stays an input (it depends on the pages the adapter sees).    *)
(***************************************************************************)
\* PolicyEngine.allowsIntent(intent)
allowsIntent(intent) ==
    IF Len(intent.sensitiveData) > 0 /\ intent.taskType = "extract"
      THEN Decision(FALSE, "deny", None, "Cannot extract data when sensitive information is involved")
    ELSE IF \E i \in 1..Len(intent.allowedDomains) : isMaliciousDomain(intent.allowedDomains[i])
      THEN Decision(FALSE, "deny", None, "Domain is on malicious domain list")
    ELSE Decision(TRUE, "allow", None, None)

\* BrowserGuardPlugin.parseIntentFromContext: the host of the call's URL is
\* passed to parseIntent as an extra domain
parseIntentFromContext(userRequest, url) ==
    parseIntent(userRequest,
                ParseOptions(IF url # NoTarget THEN <<extractDomain(url)>> ELSE <<>>,
                             FALSE, 0))

\* the hook reaches buildDAG(intent) for this call
ReachesBuildDAG(p, tool, url, intent) ==
    /\ p.config.enabled
    /\ tool \in {"web_fetch", "browser"}
    /\ ~(url # NoTarget /\ isTrustedDomain(p, url))
    /\ ~(p.config.mode = "block" /\ ~validateIntent(intent).valid)
    /\ ~(p.config.mode = "block" /\ ~allowsIntent(intent).allowed)

MediatedRequests ==
    { <<>>, <<WordToken("Search")>>, <<WordToken("Search"), HostToken(HostA)>>,
      <<WordToken("login"), WordToken("password")>>,
      <<WordToken("extract"), WordToken("password"), HostToken(HostA)>> }

MediatedUrls ==
    { NoTarget, Url("https", HostA, ""), Url("https", HostApiA, ""),
      Url("https", HostEvil, "") }

\* beforeToolCall({tool, params: {url}, context: {userRequest}})
PMediateToolCall ==
    /\ Len(state.log) <= MaxPluginLog
    /\ \E tool \in {"web_fetch", "browser", "exec"}, url \in MediatedUrls,
          userRequest \in MediatedRequests, status \in {"complete", "blocked"} :
         LET intent == parseIntentFromContext(userRequest, url)
             plan == buildDAG(tables, intent, NoOptions)
             call == ToolCall(tool, url, validateIntent(intent).valid,
                              allowsIntent(intent).allowed, FALSE,
                              validateDAG(plan), status)
             r == beforeToolCall(plugin, call)
         IN /\ state' = [state EXCEPT !.log = @ \o r.logged]
            /\ tables' = IF ReachesBuildDAG(plugin, tool, url, intent)
                         THEN TablesAfterBuildDAG(tables, intent) ELSE tables
            /\ pCall' = [called |-> TRUE, fresh |-> TRUE, call |-> call,
                         userRequest |-> userRequest, intent |-> intent,
                         decision |-> r.decision, logged |-> r.logged]
    /\ UNCHANGED <<plugin, tOp, polVars, filtVars, guardVars, execVars, mgrVars, cacheVars>>

MediatorNext == PSetAdapter \/ PMediateToolCall

(***************************************************************************)
(* Web-fetch guard fed from requests: setIntentFromRequest and the hook    *)
(* createWebFetchHook(guard) returns (web-fetch-guard.ts)                  *)
(***************************************************************************)
\* variant: the parsed intent is set whatever validateIntent says
setIntentFromRequestUnvalidated(g, userRequest) ==
    LET intent == parseIntent(userRequest, NoParseOptions) IN
    [guard |-> setIntent(g, intent), validation |-> validateIntent(intent)]

\* WebFetchGuard.setIntentFromRequest(userRequest): the guard afterwards and
\* the validation it returns
setIntentFromRequest(g, userRequest) ==
    LET intent == parseIntent(userRequest, NoParseOptions)
        validation == validateIntent(intent)
    IN [guard |-> IF validation.valid THEN setIntent(g, intent) ELSE g,
        validation |-> validation]

HookCall(tool, hasUrl, url, hasContext, userRequest) ==
    [tool |-> tool, hasUrl |-> hasUrl, url |-> url, hasContext |-> hasContext,
     userRequest |-> userRequest]

\* the WebFetchRequest the hook builds: { url, method: params.method || 'GET' }
HookRequest(toolCall) ==
    [url |-> toolCall.url, method |-> "GET", headers |-> NoHeaders, body |-> NoBody]

HookAnswer(allow, reason, transformed) ==
    [allow |-> allow, reason |-> reason, transformed |-> transformed]

\* the guard after the hook's "set intent from context if available": an
\* empty request string is falsy
HookGuard(g, toolCall) ==
    IF toolCall.hasContext /\ toolCall.userRequest # <<>> /\ ~g.currentIntent.present
    THEN setIntentFromRequest(g, toolCall.userRequest).guard
    ELSE g

\* what the hook answers once the guard g is the one that checks
HookCheck(g, toolCall) ==
    IF ~toolCall.hasUrl THEN HookAnswer(TRUE, None, FALSE)
    ELSE LET checked == check(g, HookRequest(toolCall)) IN
         IF ~checked.allowed THEN HookAnswer(FALSE, checked.decision.reason, FALSE)
         ELSE HookAnswer(TRUE, None, checked.modified)

\* the hook: the guard afterwards and the answer
webFetchHook(g, toolCall) ==
    IF toolCall.tool # "web_fetch"
    THEN [guard |-> g, answer |-> HookAnswer(TRUE, None, FALSE)]
    ELSE [guard |-> HookGuard(g, toolCall),
          answer |-> HookCheck(HookGuard(g, toolCall), toolCall)]

HookUserRequests ==
    { <<>>, <<WordToken("Search"), HostToken(HostA)>>,
      <<WordToken("extract"), HostToken(HostEvil)>>,
      <<WordToken("login"), WordToken("password"), HostToken(HostA)>>,
      <<WordToken("buy"), UrlToken(HostShort)>> }

HookCalls ==
    { HookCall(tool, hasUrl, IF hasUrl THEN ReqUrl("https", host, <<"page">>) ELSE InvalidUrl,
               hasContext, IF hasContext THEN userRequest ELSE <<>>) :
        tool \in {"web_fetch", "browser"}, hasUrl \in BOOLEAN,
        host \in {HostA, HostEvil, HostCdn}, hasContext \in BOOLEAN,
        userRequest \in HookUserRequests }

HSetIntentFromRequest ==
    /\ \E userRequest \in HookUserRequests :
         LET r == setIntentFromRequest(guard, userRequest) IN
         /\ guard' = r.guard
         /\ gCall' = [called |-> TRUE, op |-> "setIntentFromRequest",
                      userRequest |-> userRequest, before |-> guard,
                      validation |-> r.validation]
    /\ UNCHANGED <<polVars, filtVars, execVars, auxVars>>

HWebFetchHook ==
    /\ \E toolCall \in HookCalls :
         LET r == webFetchHook(guard, toolCall) IN
         /\ guard' = r.guard
         /\ gCall' = [called |-> TRUE, op |-> "hook", toolCall |-> toolCall,
                      before |-> guard, answer |-> r.answer]
    /\ UNCHANGED <<polVars, filtVars, execVars, auxVars>>

HookNext == HSetIntentFromRequest \/ HWebFetchHook

CacheNext == CGeneratePlan \/ CModifyPlan

CacheIdle == heap = <<>> /\ cache = <<>> /\ handed = <<>>

TabIdle == tables = InitialTables /\ tOp = [op |-> None]

AuxIdle == PlugIdle /\ MgrIdle /\ TabIdle /\ CacheIdle


(***************************************************************************)
(* Specifications                                                          *)
(***************************************************************************)
PolIdle   == engine = NewPolicyEngine(NoIntent) /\ polCall = NoCall
FiltIdle  == filt = NewHttpFilter /\ fCall = NoCall
GuardIdle == guard = NewWebFetchGuard(GuardConfig(TRUE, "block", <<>>, TRUE, FALSE)) /\ gCall = NoCall
ExecIdle  ==
    /\ dag = [intent |-> NoIntent, nodes |-> <<>>, edges |-> <<>>, entryPoint |-> None]
    /\ config = ExecutorConfig(TRUE, TRUE, NoMaxTimeout)
    /\ pc = "done"
    /\ currentNodeId = None
    /\ context = FreshContext
    /\ obs = NoObservation
    /\ nextNodeId = None
    /\ trace = <<>>
    /\ clock = 0
    /\ result = NoResult
    /\ refs = NewElementRefManager
    /\ log = <<>>

\* new SecureExecutor(adapter, new PolicyEngine(dag.intent), config).execute(dag)
ExecInit ==
    /\ dag \in Dags
    /\ config \in ExecutorConfigs
    /\ engine = NewPolicyEngine(dag.intent)
    /\ polCall = NoCall
    /\ pc = "loop"
    /\ currentNodeId = dag.entryPoint
    /\ context = FreshContext
    /\ obs = NoObservation
    /\ nextNodeId = None
    /\ trace = <<>>
    /\ clock = 0
    /\ result = NoResult
    /\ refs = NewElementRefManager
    /\ log = <<>>

Init == ExecInit /\ FiltIdle /\ GuardIdle /\ AuxIdle
Next == ExecNext \/ RefCreateSnapshot
Spec == Init /\ [][Next]_vars

InitPolicy == PolInit /\ FiltIdle /\ GuardIdle /\ ExecIdle /\ AuxIdle
SpecPolicy == InitPolicy /\ [][PolNext]_vars

InitFilter == FiltInit /\ PolIdle /\ GuardIdle /\ ExecIdle /\ AuxIdle
SpecFilter == InitFilter /\ [][FiltNext]_vars

InitGuard == GuardInit /\ PolIdle /\ FiltIdle /\ ExecIdle /\ AuxIdle
SpecGuard == InitGuard /\ [][GuardNext]_vars

SpecHook == InitGuard /\ [][HookNext]_vars

InitPlugin == PlugInit /\ PolIdle /\ FiltIdle /\ GuardIdle /\ ExecIdle /\ MgrIdle /\ TabIdle /\ CacheIdle
SpecPlugin == InitPlugin /\ [][PlugNext]_vars

InitRefs == MgrInit /\ PolIdle /\ FiltIdle /\ GuardIdle /\ ExecIdle /\ PlugIdle /\ TabIdle /\ CacheIdle
SpecRefs == InitRefs /\ [][MgrNext]_vars

SpecMediator == InitPlugin /\ [][MediatorNext]_vars

InitTables == TabInit /\ PolIdle /\ FiltIdle /\ GuardIdle /\ ExecIdle /\ PlugIdle /\ MgrIdle /\ CacheIdle
SpecTables == InitTables /\ [][TabNext]_vars

SpecPlanner == InitTables /\ [][PlannerNext]_vars

SpecValidator == InitTables /\ [][ValidatorNext]_vars

SpecSession == InitTables /\ [][SessionNext]_vars

SpecParser == InitTables /\ [][ParserNext]_vars

SpecBulk == InitTables /\ [][BulkNext]_vars

InitCache == CacheInit /\ PolIdle /\ FiltIdle /\ GuardIdle /\ ExecIdle /\ PlugIdle /\ MgrIdle /\ TabIdle
SpecCache == InitCache /\ [][CacheNext]_vars


(***************************************************************************)
(* Properties of the secure executor (specification Spec)                  *)
(***************************************************************************)
\* the adapter calls of the run so far, in order
AdapterCalls == SelectSeq(log, LAMBDA e : e.kind = "adapter")

\* C1: for each node acted on, the policy decision for its action is made
\* before its adapter call, and the adapter is called only if that decision
\* allowed the action; a deny is the last thing the run does, it ends the run
\* with status blocked, so no adapter call follows it for that or a later node.
C1_PolicyBeforeAdapter ==
    /\ \A i \in 1..Len(log) :
          log[i].kind = "adapter" =>
              /\ i > 1
              /\ log[i - 1].kind = "policy"
              /\ log[i - 1].node = log[i].node
              /\ log[i - 1].ok
    /\ \A i \in 1..Len(log) :
          (log[i].kind = "policy" /\ ~log[i].ok) =>
              /\ i = Len(log)
              /\ pc = "done"
              /\ result.status = "blocked"

\* a run that acted on one node and was denied the next
C1_Witness ==
    /\ pc = "done" /\ result.status = "blocked"
    /\ Len(AdapterCalls) >= 1
    /\ log[Len(log)].kind = "policy" /\ ~log[Len(log)].ok
    /\ log[Len(log)].node # AdapterCalls[1].node

\* C2: the first node acted on is the plan's entry point; every node acted on
\* is a node of the plan; and every node acted on after another is the target
\* of an edge of the plan leaving that other node whose condition is true of
\* that other node's observation.
C2_PredefinedPaths ==
    LET acted == AdapterCalls IN
    /\ Len(acted) > 0 => acted[1].node = dag.entryPoint
    /\ \A k \in 1..Len(acted) : \E n \in Range(dag.nodes) : n.id = acted[k].node
    /\ \A k \in 2..Len(acted) :
          /\ acted[k - 1].ok
          /\ \E e \in Range(dag.edges) :
                /\ e.from = acted[k - 1].node
                /\ e.to = acted[k].node
                /\ evaluateCondition(e.condition, acted[k - 1].obs)

\* a run that took one edge out of a node while another edge out of the same
\* node had a condition its observation did not meet
C2_Witness ==
    LET acted == AdapterCalls IN
    /\ Len(acted) >= 2
    /\ acted[1].node # acted[2].node
    /\ \E e \in Range(dag.edges) :
          /\ e.from = acted[1].node
          /\ e.to # acted[2].node
          /\ ~evaluateCondition(e.condition, acted[1].obs)

\* a required expected outcome of the node does not hold of the observation
C3_Mismatch(nodeId, observation) ==
    \E o \in Range(FindNode(dag, nodeId).expectedOutcomes) :
        o.required /\ ~OutcomeHolds(o, observation)

\* C3: after the adapter call of a non-terminal node the next thing the run
\* does is validate that call's observation, and only then is a branch
\* selected; in strict mode, when a required outcome does not hold, the
\* validation is the last thing the run does and the run ends with status
\* aborted: no branch is selected and no adapter call follows.
C3_ValidateBeforeBranch ==
    /\ \A i \in 1..Len(log) :
          log[i].kind \in {"branch", "nobranch"} =>
              /\ i > 2
              /\ log[i - 1].kind = "validate" /\ log[i - 1].node = log[i].node
              /\ log[i - 2].kind = "adapter" /\ log[i - 2].node = log[i].node
              /\ log[i - 1].obs = log[i - 2].obs
    /\ \A i \in 1..Len(log) :
          (/\ log[i].kind = "adapter" /\ log[i].ok
           /\ ~FindNode(dag, log[i].node).isTerminal) =>
              /\ i < Len(log) => log[i + 1].kind = "validate"
              /\ (config.strictMode /\ C3_Mismatch(log[i].node, log[i].obs)) =>
                    /\ i = Len(log) => pc = "validate"
                    /\ i < Len(log) =>
                          /\ i + 1 = Len(log)
                          /\ pc = "done"
                          /\ result.status = "aborted"

\* a strict run aborted by the validation of its second node's observation
C3_Witness ==
    /\ config.strictMode
    /\ pc = "done" /\ result.status = "aborted"
    /\ Len(AdapterCalls) = 2
    /\ log[Len(log)].kind = "validate"
    /\ C3_Mismatch(log[Len(log)].node, log[Len(log)].obs)

\* C4: when a branch has been selected and the steering detector is about to
\* run, if the observation's domain differs from the domain of the URL
\* visited before it and the `_allowedDomains` marker is present and excludes
\* the observation's domain, the detector reports unsafe.
C4_SteeringAborts ==
    LET visited == context.visitedUrls
        marker  == context.extractedData.allowedDomains
    IN (/\ pc = "steer"
        /\ Len(visited) >= 2
        /\ extractDomain(obs.url) # extractDomain(visited[Len(visited) - 1])
        /\ marker # <<>>
        /\ extractDomain(obs.url) \notin Range(marker))
       => ~detectBranchSteering(obs, context)

\* C5: no adapter call is made for an action that addresses an element by a
\* versioned ref whose version is not the ref manager's current version.
C5_StaleRefBlocked ==
    \A i \in 1..Len(log) : log[i].kind = "adapter" => log[i].info # "stale"


(***************************************************************************)
(* Properties of the policy engine (specification SpecPolicy)              *)
(***************************************************************************)
C6_ExecutableExtensions ==
    {".exe", ".msi", ".dmg", ".pkg", ".app", ".bat", ".cmd", ".sh", ".ps1"}
C6_PaymentPhrases ==
    { <<"pay", "now">>, <<"place", "order">>, <<"checkout">>, <<"buy", "for", "$">>,
      <<"complete", "purchase">>, <<"submit", "payment">>, <<"confirm", "payment">> }
C6_SiteRulesPresent == \E r \in Range(engine.rules) : r.source = "site"
C6_Triggers(action, ctx) ==
    \/ action.target.form # "none" /\ Lower(action.target.ext) \in C6_ExecutableExtensions
    \/ \E phrase \in C6_PaymentPhrases : Contains(LowerAll(action.description), phrase)
    \/ /\ engine.intent.taskType = "login"
       /\ ~(ctx.currentUrl.form = "url" /\ ctx.currentUrl.scheme = "https")

\* C6: whatever the engine's intent, task rules and site rules, allows denies
\* an action whose target ends in an executable extension, an action whose
\* description contains a payment phrase, and any action of a login task
\* while the current URL is not an https:// URL.
C6_SecurityShortCircuit ==
    polCall.called =>
        (C6_Triggers(polCall.action, polCall.ctx) =>
            ~polCall.decision.allowed /\ polCall.decision.effect = "deny")

\* a login engine that holds site rules denies an otherwise harmless action
\* on an http:// page
C6_Witness ==
    /\ polCall.called /\ polCall.fresh
    /\ C6_SiteRulesPresent
    /\ engine.intent.taskType = "login"
    /\ polCall.ctx.currentUrl.scheme = "http"
    /\ polCall.action.type = "type"
    /\ polCall.action.target = Selector("")
    /\ polCall.action.description = <<"submit", "form">>
    /\ ~polCall.decision.allowed

\* C8: once a site's directives have been added as rules, a later allows call
\* made on that site denies clicks under no-form-submit, clicks and typing
\* under read-only, and every action under no-ai-agents.
C8_SiteRulesEnforced ==
    (polCall.called /\ polCall.fresh) =>
        \A r \in Range(engine.rules) :
            (/\ r.source = "site"
             /\ polCall.ctx.currentDomain \in r.domains
             /\ \/ r.id = "site:no-form-submit" /\ polCall.action.type = "click"
                \/ r.id = "site:read-only" /\ polCall.action.type \in {"click", "type"}
                \/ r.id = "site:no-ai-agents")
            => ~polCall.decision.allowed

\* a rule covers the action: its scope admits the action, the current domain
\* and the task type, and for the static pattern rules the pattern is met
C9_RuleMatches(r, action, ctx) ==
    /\ r.domains = {} \/ ctx.currentDomain \in r.domains
    /\ r.actions = {} \/ action.type \in r.actions
    /\ r.taskTypes = {} \/ engine.intent.taskType \in r.taskTypes
    /\ r.id = "static:no-auto-payment" => IsPaymentDescription(action.description)
    /\ r.id = "static:https-only-credentials" => ~StartsWithHttps(ctx.currentUrl)
    /\ r.id = "static:no-executable-download" => IsExecutableTarget(action.target)
    /\ r.id = "static:block-malicious-domains" =>
          action.target.form = "url" /\ isMaliciousDomain(action.target.host)

\* C9: when the engine's rule list holds a confirm rule matching the action
\* and no deny rule of higher priority (a smaller number) matching it, allows
\* returns a decision with effect confirm.
C9_ConfirmReturned ==
    (polCall.called /\ polCall.fresh) =>
        ((\E r \in Range(engine.rules) :
             /\ r.effect = "confirm"
             /\ C9_RuleMatches(r, polCall.action, polCall.ctx)
             /\ ~\E d \in Range(engine.rules) :
                    /\ d.effect = "deny"
                    /\ d.priority < r.priority
                    /\ C9_RuleMatches(d, polCall.action, polCall.ctx))
         => polCall.decision.effect = "confirm")

(***************************************************************************)
(* Properties of the HTTP filter (specification SpecFilter)                *)
(***************************************************************************)
\* the policy of the current domain names the host or a parent domain of it
C7_CurrentPolicyIncludes(host, currentDomain) ==
    /\ currentDomain # NoHost
    /\ HasPolicy(filt, currentDomain)
    /\ \E ad \in Range(findPolicy(filt, currentDomain).allowed_domains) :
          /\ ad # NoHost /\ host # NoHost
          /\ ad = host \/ (Len(host) > Len(ad) /\ IsSuffix(ad, host))

\* C7: while a predicted allowlist is active, a request to a host outside the
\* allowlist is denied unless the policy of the current domain includes the
\* host (by name or as a subdomain) in its allowed_domains.
C7_OutsideAllowlistBlocked ==
    (/\ fCall.called /\ fCall.fresh
     /\ filt.predictedAllowlistActive
     /\ fCall.request.url.host \notin filt.predictedAllowlist
     /\ ~C7_CurrentPolicyIncludes(fCall.request.url.host, fCall.currentDomain))
    => (~fCall.decision.allowed /\ fCall.decision.action = "deny")

\* the current domain's policy allows some other host, and a request to a host
\* it does not name is denied
C7_Witness ==
    /\ fCall.called /\ fCall.fresh
    /\ filt.predictedAllowlistActive
    /\ fCall.request.url.host = HostEvil
    /\ fCall.currentDomain = HostA
    /\ HasPolicy(filt, HostA)
    /\ findPolicy(filt, HostA).allowed_domains = <<HostCdn>>
    /\ ~fCall.decision.allowed

(***************************************************************************)
(* Properties of the web-fetch guard (specification SpecGuard)             *)
(***************************************************************************)
\* C10: when check returns a request as allowed while stripCookies is
\* configured or the filter's decision is allow_public, the returned request
\* carries none of the headers Cookie, cookie, Authorization, authorization.
C10_CredentialsStripped ==
    (/\ gCall.called
     /\ gCall.result.allowed
     /\ gCall.config.stripCookies \/ gCall.result.decision.action = "allow_public")
    => gCall.result.request.headers.names
          \cap {"Cookie", "cookie", "Authorization", "authorization"} = {}

PluginFailures(c) ==
    { "Intent validation failed", "Policy check failed", "DAG validation failed",
      "Error in beforeToolCall" } \cap Range(c.logged)

PluginModesHonoured ==
    (pCall.called /\ pCall.fresh /\ PluginFailures(pCall) # {})
    => /\ plugin.config.mode = "block" => ~pCall.decision.allow
       /\ plugin.config.mode = "warn" => pCall.decision.allow

(***************************************************************************)
(* Properties of the executor's bounds (specification Spec)                *)
(***************************************************************************)
\* the steps an iteration makes after its deadline check found time left
IterationSteps == {"notfound", "policy"}

\* C12: every iteration checks the deadline first: it resolves the node and
\* asks the policy (and so reaches the adapter) only when the elapsed time
\* does not exceed the timeout; when the elapsed time exceeds the timeout at
\* such a check the run ends there with status timeout, and nothing, in
\* particular no adapter call, follows.
C12_DeadlineFirst ==
    \A i \in DOMAIN log :
         /\ log[i].kind \in IterationSteps => ~(log[i].at > Timeout)
         /\ log[i].kind \in {"adapter", "unknown"}
              => /\ i > 1
                 /\ log[i-1].kind = "policy"
                 /\ log[i-1].at = log[i].at
                 /\ ~(log[i].at > Timeout)
         /\ log[i].kind = "timeout"
              => /\ log[i].at > Timeout
                 /\ i = Len(log)
                 /\ pc = "done"
                 /\ result.status = "timeout"
                 /\ i > 1 => log[i-1].kind = "steer"

C12_Witness ==
    /\ pc = "done"
    /\ result.status = "timeout"
    /\ Len(log) > 1
    /\ log[Len(log)].kind = "timeout"
    /\ \E i \in DOMAIN log : log[i].kind = "adapter" /\ log[i].ok
    /\ ~config.maxTimeout.set

\* C13: the deadline of a run is never more than 300 000 ms (TimeoutCap),
\* whatever timeout the intent or the executor configuration carries: no
\* iteration goes on (node lookup, policy check, adapter call) when its
\* deadline check is made after the cap has elapsed.
C13_DeadlineCapped ==
    \A i \in DOMAIN log :
        log[i].kind \in IterationSteps \cup {"adapter"} => log[i].at <= TimeoutCap


\* C14: max_depth bounds the hops of a run: the depth the interpreter counts
\* never exceeds the intent's maxDepth, and so neither does the number of
\* steps executed (adapter calls that returned) nor of trace entries.
C14_DepthBounded ==
    /\ context.depth <= dag.intent.maxDepth
    /\ Len(SelectSeq(log, LAMBDA e : e.kind = "adapter" /\ e.ok)) <= dag.intent.maxDepth
    /\ Len(trace) <= dag.intent.maxDepth


(***************************************************************************)
(* Properties of the element ref manager (specification SpecRefs)          *)
(***************************************************************************)
\* C15: after N snapshots a ref "V:R" is valid exactly when V = N and R is a
\* key of the N-th snapshot (1..its number of elements); so refs of earlier
\* snapshots are rejected, before the first snapshot no ref is valid, and a
\* string that is no ref is rejected.  A valid result carries element R.
C15_ValidIffCurrent ==
    (rCall.called /\ rCall.fresh)
    => LET N == Len(issued)
           res == rCall.result
       IN /\ \A v \in 0..(MaxCreated + 1), r \in 0..3 :
                rCall.refString = createRef(v, r)
                => /\ res.valid <=> (N >= 1 /\ v = N /\ r \in 1..issued[N].elements)
                   /\ res.valid => res.element = r
          /\ N = 0 => ~res.valid
          /\ ~parseRef(rCall.refString).ok => ~res.valid

C15_Witness ==
    /\ rCall.called /\ rCall.fresh
    /\ Len(issued) = 2
    /\ issued[1].elements = 2
    /\ rCall.refString = createRef(2, 2)
    /\ rCall.result.valid

\* C16: every createSnapshot raises the version by exactly one and returns a
\* snapshot carrying the new version: the i-th snapshot returned has version
\* i (strictly increasing, none reused), and the current version is the
\* number of snapshots created and is the version of a stored snapshot.
C16_VersionsCount ==
    /\ getCurrentVersion(refs) = Len(issued)
    /\ \A i \in DOMAIN issued : issued[i].version = i
    /\ Len(issued) > 0
         => /\ HasSnapshot(refs, getCurrentVersion(refs))
            /\ GetSnapshot(refs, getCurrentVersion(refs)) = issued[Len(issued)]

C16_Witness ==
    /\ Len(issued) = 3
    /\ getCurrentVersion(refs) = 3
    /\ issued[3].version = 3


(***************************************************************************)
(* Properties of branch selection and of the session result                *)
(* (specification Spec)                                                    *)
(***************************************************************************)
\* the edges of the plan that leave `nodeId` and whose condition is true of
\* `observation`, by their index in the plan
C17_TrueEdges(nodeId, observation) ==
    { k \in DOMAIN dag.edges :
        /\ dag.edges[k].from = nodeId
        /\ evaluateCondition(dag.edges[k].condition, observation) }

\* C17: every branch the run takes is the target of an outgoing edge of the
\* current node whose condition is true of the observation and whose
\* priority value is the lowest among the outgoing edges with a true
\* condition: no outgoing edge with a strictly lower priority value has a
\* true condition.
C17_LowestPriorityFirst ==
    \A i \in DOMAIN log :
        log[i].kind = "branch"
        => \E k \in C17_TrueEdges(log[i].node, log[i].obs) :
              /\ dag.edges[k].to = log[i].info
              /\ \A j \in C17_TrueEdges(log[i].node, log[i].obs) :
                    dag.edges[j].priority >= dag.edges[k].priority

\* a branch taken over an edge the plan lists after a true edge of higher
\* priority value
C17_Witness ==
    \E i \in DOMAIN log :
        /\ log[i].kind = "branch"
        /\ \E k, j \in C17_TrueEdges(log[i].node, log[i].obs) :
              /\ dag.edges[k].to = log[i].info
              /\ j < k
              /\ dag.edges[j].priority > dag.edges[k].priority
              /\ dag.edges[j].to # dag.edges[k].to


\* C18: the result of every run, whatever its status, carries the data
\* collected up to the point where the run ended, and the trace of the steps
\* executed (one entry per action performed, when tracing is enabled).
C18_ResultCarriesData ==
    pc = "done"
    => /\ context.extractedData.keys # {}
            => (result.hasData /\ result.data = context.extractedData)
       /\ config.traceEnabled
            => Len(trace) = Len(SelectSeq(log, LAMBDA e : e.kind = "adapter" /\ e.ok))


(***************************************************************************)
(* Properties of the module-level tables (specification SpecTables)        *)
(***************************************************************************)
\* C19: the static tables are immutable across sessions: whatever public
\* operations sessions have performed (constructing policy engines, adding
\* site policies, parsing intents, building plans, generating plans through
\* the caching provider), the static rule table, the task-type action table
\* and the plan templates are as the modules define them.
C19_TablesImmutable ==
    /\ tables.rules = STATIC_POLICIES
    /\ tables.actions = TaskActionRows
    /\ \A t \in TemplateNames : tables.templates[t].navigateTarget = NoTarget


\* C20: every plan obtained from an LLM response is domain-constrained by
\* the core whatever the LLM emitted: each node of a plan a provider
\* extracted from a response, and of a plan the LLM planner accepted,
\* carries a domain constraint that enumerates the intent's allowed domains,
\* also when the response had a domain constraint of its own.
C20_DomainConstrained ==
    /\ ( tOp.op = "provider generatePlan" /\ ~tOp.result.threw )
          => DomainConstrained(tOp.result.dag)
    /\ ( tOp.op = "LLMPlanner generatePlan" /\ ~tOp.result.threw
         /\ ~tOp.result.usedFallback )
          => DomainConstrained(tOp.result.dag)

\* the plans the LLM planner returns: here the core's constraint replaces
\* whatever domain constraint the response had
PlannerDomainConstrained ==
    ( tOp.op = "LLMPlanner generatePlan" /\ ~tOp.result.threw
      /\ ~tOp.result.usedFallback )
        => /\ DomainConstrained(tOp.result.dag)
           /\ OnlyCoreDomainConstraints(tOp.result.dag)

PlannerWitness ==
    /\ tOp.op = "LLMPlanner generatePlan"
    /\ ~tOp.result.threw /\ ~tOp.result.usedFallback
    /\ tOp.result.attempts = 2
    /\ tOp.maxRetries = 2
    /\ SuppliedDomainConstraint(tOp.result.response)
    /\ tOp.intent.allowedDomains = <<HostEvil, HostA>>


(***************************************************************************)
(* Properties of the LLM planner (specification SpecPlanner)               *)
(***************************************************************************)
\* C21: generatePlan calls the provider at most maxRetries times, checks
\* the result of each attempt with the validator before it accepts it and
\* returns the first result that passes: the plan it returns from an LLM
\* response is valid, it comes from the answer to the call the result
\* counts as its last, and the answers to all calls before it were refused.
C21_FirstValidAttempt ==
    tOp.op = "LLMPlanner generatePlan" =>
        /\ tOp.result.calls <= tOp.maxRetries
        /\ ( ~tOp.result.threw /\ ~tOp.result.usedFallback ) =>
              /\ tOp.result.calls >= 1
              /\ validateLLMResponse(tOp.result.dag)
              /\ LET accepted == ProviderGeneratePlan(
                                     AnswerAt(tOp.answers, tOp.result.calls), tOp.intent)
                 IN  /\ ~accepted.threw
                     /\ tOp.result.dag.edges = accepted.dag.edges
                     /\ tOp.result.dag.entryPoint = accepted.dag.entryPoint
                     /\ Len(tOp.result.dag.nodes) = Len(accepted.dag.nodes)
              /\ \A j \in 1..(tOp.result.calls - 1) :
                    LET earlier == ProviderGeneratePlan(AnswerAt(tOp.answers, j), tOp.intent)
                    IN  earlier.threw \/ ~validateLLMResponse(earlier.dag)

\* a plan accepted on the second attempt, the first answer being a plan the
\* validator refuses
C21_Witness ==
    /\ tOp.op = "LLMPlanner generatePlan"
    /\ ~tOp.result.threw /\ ~tOp.result.usedFallback
    /\ tOp.result.calls = 2
    /\ ~ProviderGeneratePlan(tOp.answers[1], tOp.intent).threw
    /\ ~validateLLMResponse(ProviderGeneratePlan(tOp.answers[1], tOp.intent).dag)


\* the failure of the k-th attempt, from the answer alone
C22_Failure(k) ==
    IF ~AnswerAt(tOp.answers, k).parses THEN "Failed to extract DAG"
    ELSE "Validation failed"

\* C22: when all maxRetries attempts have failed, generatePlan returns the
\* plan of the template strategy if fallbackToTemplate is set, and
\* otherwise fails with a PlanGenerationError that carries the cause of the
\* last failure and the number of attempts.
C22_FallbackOrError ==
    ( /\ tOp.op = "LLMPlanner generatePlan"
      /\ tOp.maxRetries >= 1
      /\ \A k \in 1..tOp.maxRetries :
            ~AttemptAccepted(AnswerAt(tOp.answers, k), tOp.intent) )
    => IF tOp.fallbackToTemplate
       THEN /\ ~tOp.result.threw
            /\ tOp.result.usedFallback
            /\ tOp.result.attempts = tOp.maxRetries
            /\ { tOp.result.dag.nodes[i].id : i \in 1..Len(tOp.result.dag.nodes) } =
               { TemplateNodes("EXTRACT_TEMPLATE")[i].id :
                   i \in 1..Len(TemplateNodes("EXTRACT_TEMPLATE")) }
            /\ validateDAG(tOp.result.dag)
       ELSE /\ tOp.result.threw
            /\ tOp.result.error.name = "PlanGenerationError"
            /\ tOp.result.error.cause = C22_Failure(tOp.maxRetries)
            /\ tOp.result.error.attempts = tOp.maxRetries

\* two attempts failed for different reasons and the error carries the
\* second one
C22_Witness ==
    /\ tOp.op = "LLMPlanner generatePlan"
    /\ tOp.maxRetries = 2 /\ ~tOp.fallbackToTemplate
    /\ tOp.result.threw
    /\ C22_Failure(1) = "Validation failed"
    /\ C22_Failure(2) = "Failed to extract DAG"
    /\ tOp.result.error.cause = "Failed to extract DAG"

\* the fallback was taken after two failed attempts
C22_FallbackWitness ==
    /\ tOp.op = "LLMPlanner generatePlan"
    /\ tOp.maxRetries = 2 /\ tOp.fallbackToTemplate
    /\ tOp.result.usedFallback


(***************************************************************************)
(* Properties of the template planner (specification SpecTables)           *)
(***************************************************************************)
\* C23: in every plan the template planner returns, the target of each
\* navigate node is https://<allowedDomains[0]> of the intent passed to
\* that call, whatever plans were built for other intents before.
C23_TargetFromIntent ==
    tOp.op = "buildDAG" =>
        \A i \in 1..Len(tOp.dag.nodes) :
            tOp.dag.nodes[i].action.type = "navigate" =>
                tOp.dag.nodes[i].action.target =
                    Url("https", tOp.intent.allowedDomains[1], "")

\* C25: for every valid intent, of any task type, the plan the template
\* planner produces is accepted by the validator.
C25_TemplatePlanValid ==
    tOp.op = "buildDAG" => validateDAG(tOp.dag)

\* a plan built for a purchase intent with builder options, after the
\* templates were used for another domain
C25_Witness ==
    /\ tOp.op = "buildDAG"
    /\ tOp.intent.taskType = "purchase"
    /\ tOp.options.hasConstraints
    /\ Len(tOp.dag.nodes) = 7 /\ Len(tOp.dag.edges) = 7
    /\ tOp.dag.entryPoint = "navigate_page"
    /\ tables.templates["SEARCH_TEMPLATE"].navigateTarget # NoTarget


(***************************************************************************)
(* Properties of the validator (specification SpecValidator)               *)
(***************************************************************************)
C24_NodeIds == { tOp.dag.nodes[i].id : i \in 1..Len(tOp.dag.nodes) }

\* a set of nodes that holds the entry and the target of every edge that
\* leaves it
C24_Closed(S) ==
    /\ tOp.dag.entryPoint \in S
    /\ \A i \in 1..Len(tOp.dag.edges) :
          tOp.dag.edges[i].from \in S => tOp.dag.edges[i].to \in S

\* C24: every graph the validator accepts has its entry among its nodes,
\* every node (so every terminal) reachable from the entry, an outgoing
\* edge on every non-terminal node, and both endpoints of every edge among
\* its nodes.  Reachable from the entry: in every set of nodes that holds
\* the entry and is closed under the edges.
C24_AcceptedIsWellFormed ==
    ( tOp.op = "validateDAG" /\ tOp.result.valid ) =>
        /\ tOp.dag.entryPoint \in C24_NodeIds
        /\ \A S \in SUBSET C24_NodeIds : C24_Closed(S) => S = C24_NodeIds
        /\ \A i \in 1..Len(tOp.dag.nodes) :
              ~tOp.dag.nodes[i].isTerminal =>
                  \E j \in 1..Len(tOp.dag.edges) :
                      tOp.dag.edges[j].from = tOp.dag.nodes[i].id
        /\ \A i \in 1..Len(tOp.dag.edges) :
              /\ tOp.dag.edges[i].from \in C24_NodeIds
              /\ tOp.dag.edges[i].to \in C24_NodeIds

\* an accepted graph of three nodes, two of them not terminal
C24_Witness ==
    /\ tOp.op = "validateDAG" /\ tOp.result.valid
    /\ Len(tOp.dag.nodes) = 3
    /\ ~tOp.dag.nodes[1].isTerminal /\ ~tOp.dag.nodes[2].isTerminal
    /\ Len(tOp.dag.edges) = 2


(***************************************************************************)
(* Properties of a filter built from an intent (specification SpecSession) *)
(***************************************************************************)
\* C26: the filter and the policy engine built from the same intent agree
\* on domain restrictions: a request to a host, issued without a current
\* domain, is allowed by the filter exactly when the engine allows
\* navigating to that host.
C26_FilterAgreesWithEngine ==
    ( tOp.op = "createFilterFromIntent" /\ tOp.currentDomain = NoHost ) =>
        ( tOp.decision.allowed <=> tOp.navigate.allowed )

C28_Matching(host) ==
    { i \in 1..Len(filt.policies) : domainMatches(filt.policies[i].key, host) }

\* among them the one with the longest host
C28_Longest(host) ==
    filt.policies[CHOOSE i \in C28_Matching(host) :
                      \A j \in C28_Matching(host) :
                          Len(filt.policies[j].key) <= Len(filt.policies[i].key)].value

\* C28: when more than one loaded policy matches the destination host, the
\* request is governed by the policy with the longest matching host, in
\* whatever order the policies were loaded.
C28_LongestMatchGoverns ==
    ( /\ fCall.called /\ fCall.fresh
      /\ Cardinality(C28_Matching(fCall.request.url.host)) > 1
      /\ fCall.decision.reason # "not in predicted allowlist" )
    => fCall.decision =
          FilterByPolicy(filt, fCall.request, fCall.currentDomain,
                         C28_Longest(fCall.request.url.host))


(***************************************************************************)
(* Properties of the caching provider (specification SpecCache)            *)
(***************************************************************************)
\* C29: the plans the caching provider returns are isolated from its cache:
\* a plan its holder has not changed is the plan of the inner provider,
\* whatever the holders of the other plans, the first one included, have
\* done to theirs.
C29_PlansIsolated ==
    \A i \in 1..Len(handed) :
        ~handed[i].modified => heap[handed[i].ref].nodes[1].id = "start"


\* C30: after any sequence of createSnapshot calls the ref manager stores
\* at most maxSnapshots (5) snapshots, and they are exactly the most
\* recently created ones: the current one is stored, and a call that
\* exceeds the cap evicts the snapshot with the lowest version.
C30_LatestSnapshotsKept ==
    /\ Cardinality(refs.snapshots) <= maxSnapshots
    /\ refs.snapshots =
          { issued[i] : i \in { j \in 1..Len(issued) : j > Len(issued) - maxSnapshots } }
    /\ Len(issued) > 0 => issued[Len(issued)] \in refs.snapshots

\* six snapshots were created: the first one is gone, five are stored
C30_Witness ==
    /\ Len(issued) = 6
    /\ Cardinality(refs.snapshots) = 5
    /\ issued[1] \notin refs.snapshots
    /\ issued[2] \in refs.snapshots


(***************************************************************************)
(* Properties of the task parser (specification SpecParser)                *)
(***************************************************************************)
\* C31: for every intent produced by the parser, every domain in
\* allowed_domains either is www.-prefixed or appears together with its www.
\* sibling, and allowed_domains is non-empty (or the intent fails
\* validation).
C31_WwwSiblings ==
    tOp.op = "parseRequest" =>
        LET domains == tOp.intent.allowedDomains IN
        /\ \A i \in 1..Len(domains) :
              \/ StartsWithWww(domains[i])
              \/ WwwOf(domains[i]) \in Range(domains)
        /\ Len(domains) > 0 \/ ~tOp.validation.valid

\* C32: when no domain can be derived from the request, the domain set
\* defaults to the search-engine set only for search tasks; for every other
\* task type it stays empty and the intent fails validation.
C32_NoDomainDerived ==
    /\ tOp.options.extraDomains = <<>>
    /\ UrlHosts(tOp.request) = <<>>
    /\ RequestMentions(tOp.request) = <<>>

C32_DefaultOnlyForSearch ==
    (tOp.op = "parseRequest" /\ C32_NoDomainDerived) =>
        IF tOp.intent.taskType = "search"
        THEN Range(tOp.intent.allowedDomains) = {HostGoogle, WwwOf(HostGoogle)}
        ELSE tOp.intent.allowedDomains = <<>> /\ ~tOp.validation.valid


(***************************************************************************)
(* Properties of the bulk actions (specification SpecBulk)                 *)
(***************************************************************************)
\* C33: can_batch(actions) reports ok if and only if no navigate action is
\* present among the actions, all their refs share one snapshot version, and
\* no single action violates a constraint (each ref is a well-formed
\* versioned ref).
C33_NoNavigate == \A i \in 1..Len(tOp.actions) : tOp.actions[i].type # "navigate"

C33_OneVersion ==
    \A i, j \in 1..Len(tOp.actions) :
        (parseRef(tOp.actions[i].ref).ok /\ parseRef(tOp.actions[j].ref).ok)
            => parseRef(tOp.actions[i].ref).version = parseRef(tOp.actions[j].ref).version

C33_RefsWellFormed == \A i \in 1..Len(tOp.actions) : parseRef(tOp.actions[i].ref).ok

C33_OkIffBatchable ==
    tOp.op = "canBatchActions" =>
        (tOp.answer.canBatch <=>
            (C33_NoNavigate /\ C33_OneVersion /\ C33_RefsWellFormed))


\* the part of C33 that does not depend on what a constraint is: a list
\* reported ok holds no navigate action
C33_OkHasNoNavigate ==
    (tOp.op = "canBatchActions" /\ tOp.answer.canBatch) => C33_NoNavigate

\* a list of several actions is reported ok exactly when it holds no
\* navigate action and the refs that parse share one version
C33_SeveralActions ==
    (tOp.op = "canBatchActions" /\ Len(tOp.actions) >= 2) =>
        (tOp.answer.canBatch <=> (C33_NoNavigate /\ C33_OneVersion))


(***************************************************************************)
(* Properties of the plugin with its collaborators (SpecMediator)          *)
(***************************************************************************)
\* C34: in block mode the plugin lets a web_fetch or browser call through
\* (unchanged or as an executed plan) only if its target host is admitted by
\* the intent derived from the user's request or is configured as trusted:
\* the target URL of the call does not by itself add its host to the
\* intent's allowed domains.
C34_LetThrough ==
    /\ pCall.called
    /\ plugin.config.enabled /\ plugin.config.mode = "block"
    /\ pCall.call.tool \in {"web_fetch", "browser"}
    /\ pCall.call.url # NoTarget
    /\ pCall.decision.allow
    /\ pCall.decision.transform.tool # "browser_guard_confirm"

C34_AdmittedByRequest ==
    LET fromRequest == parseIntent(pCall.userRequest, NoParseOptions) IN
    \E i \in 1..Len(fromRequest.allowedDomains) :
        HostMatches(fromRequest.allowedDomains[i], extractDomain(pCall.call.url))

C34_TargetAdmittedByRequest ==
    C34_LetThrough =>
        \/ isTrustedDomain(plugin, pCall.call.url)
        \/ C34_AdmittedByRequest


(***************************************************************************)
(* Properties of the guard fed from requests (specification SpecHook)      *)
(***************************************************************************)
\* C35: every web_fetch call that carries a user request in its context is
\* checked by the web-fetch hook against the intent derived from that call's
\* own user request, also when an earlier call through the same guard
\* already established an intent from a different request.
C35_OwnIntentGuard ==
    setIntentFromRequest(NewWebFetchGuard(gCall.before.config),
                         gCall.toolCall.userRequest).guard

C35_CheckedAgainstOwnRequest ==
    (/\ gCall.called /\ gCall.op = "hook"
     /\ gCall.toolCall.tool = "web_fetch"
     /\ gCall.toolCall.hasContext /\ gCall.toolCall.userRequest # <<>>
     /\ gCall.toolCall.hasUrl)
    => gCall.answer = HookCheck(C35_OwnIntentGuard, gCall.toolCall)

\* the security face of C35: in block mode the hook does not let a call
\* through that the intent of the call's own request denies
C35_NotAdmittedByStaleIntent ==
    (/\ gCall.called /\ gCall.op = "hook"
     /\ gCall.before.config.enabled /\ gCall.before.config.mode = "block"
     /\ gCall.toolCall.tool = "web_fetch"
     /\ gCall.toolCall.hasContext /\ gCall.toolCall.userRequest # <<>>
     /\ gCall.toolCall.hasUrl
     /\ ~HookCheck(C35_OwnIntentGuard, gCall.toolCall).allow)
    => ~gCall.answer.allow

\* C39: a set_intent_from_request call whose derived intent fails validation
\* returns the issues and leaves the guard's current intent and filter
\* exactly as they were, so that later requests are still judged by the
\* previously established intent (or by the initial empty filter).
C39_InvalidLeavesGuard ==
    (/\ gCall.called /\ gCall.op = "setIntentFromRequest"
     /\ ~gCall.validation.valid)
    => /\ gCall.validation.issues # <<>>
       /\ guard.currentIntent = gCall.before.currentIntent
       /\ guard.filter = gCall.before.filter
       /\ \A request \in GuardRequests :
             check(guard, request) = check(gCall.before, request)

\* a request that fails validation arrives at a guard that holds an intent
C39_Witness ==
    /\ gCall.called /\ gCall.op = "setIntentFromRequest"
    /\ ~gCall.validation.valid
    /\ gCall.before.currentIntent.present
    /\ guard.currentIntent = gCall.before.currentIntent

\* a request that fails validation arrives at a guard without intent
C39_WitnessInitial ==
    /\ gCall.called /\ gCall.op = "setIntentFromRequest"
    /\ ~gCall.validation.valid
    /\ ~gCall.before.currentIntent.present
    /\ guard.filter = NewHttpFilter


(***************************************************************************)
(* Properties of accepted plans and their runs                             *)
(***************************************************************************)
\* the node lies on a cycle of the plan's edges
C36_OnCycle(plan, id) ==
    id \in PlanReachable(plan.edges,
                         { plan.edges[i].to :
                             i \in { j \in 1..Len(plan.edges) : plan.edges[j].from = id } })

C36_Acyclic(plan) == \A i \in 1..Len(plan.nodes) : ~C36_OnCycle(plan, plan.nodes[i].id)

\* C36: every plan accepted by the validator is acyclic, so that a run over
\* an accepted plan acts on each node at most once and ends after at most as
\* many steps as the plan has nodes.
C36_AcceptedRunsActOnce ==
    validateDAG(dag) =>
        /\ C36_Acyclic(dag)
        /\ \A i, j \in 1..Len(AdapterCalls) :
              i # j => AdapterCalls[i].node # AdapterCalls[j].node
        /\ Len(AdapterCalls) <= Len(dag.nodes)

\* the first half of C36 on the validator alone (SpecValidator)
C36_AcceptedIsAcyclic ==
    (tOp.op = "validateDAG" /\ tOp.result.valid) => C36_Acyclic(tOp.dag)

\* the plans buildDAG makes from the two templates have no cycle (SpecTables)
C36_TemplatePlansAcyclic ==
    tOp.op = "buildDAG" => C36_Acyclic(tOp.dag)


\* the second half of C36 alone: a run over an accepted plan acts on no node
\* twice (Spec)
C36_RunActsOnce ==
    validateDAG(dag) =>
        \A i, j \in 1..Len(AdapterCalls) :
            i # j => AdapterCalls[i].node # AdapterCalls[j].node


(***************************************************************************)
(* Properties of template plans against the policy engine                  *)
(***************************************************************************)
\* the intent parseIntent makes for the task type and domains of a plan
C37_IntentOfPlan == Intent(tOp.intent.taskType, tOp.intent.allowedDomains, TimeoutCap)

\* the engine's answer for a node of the plan on a page of the first domain
C37_EngineAnswer(node) ==
    allows(NewPolicyEngine(C37_IntentOfPlan),
           Action(node.action.type, node.action.target, <<>>),
           Ctx(Url("https", tOp.intent.allowedDomains[1], "")))

\* C37: every node of a plan built by the template planner for an intent
\* uses an action type contained in that intent's allowed_actions, so that no
\* node of the plan is denied by the action-alphabet check of the policy
\* engine derived from the same intent.
C37_TemplateActionsAllowed ==
    tOp.op = "buildDAG" =>
        \A i \in 1..Len(tOp.dag.nodes) :
            /\ tOp.dag.nodes[i].action.type \in C37_IntentOfPlan.allowedActions
            /\ C37_EngineAnswer(tOp.dag.nodes[i]).reason # "Action not allowed for this task"

\* the task types whose template plans stay inside the action alphabet
C37_CoveredTaskTypes == {"search", "interact", "purchase"}

C37_CoveredTemplatesAllowed ==
    (tOp.op = "buildDAG" /\ tOp.intent.taskType \in C37_CoveredTaskTypes) =>
        \A i \in 1..Len(tOp.dag.nodes) :
            tOp.dag.nodes[i].action.type \in C37_IntentOfPlan.allowedActions


(***************************************************************************)
(* Properties of login plans (specification Spec)                          *)
(***************************************************************************)
\* the plan is for a login task and its entry node navigates to an https://
\* URL on an allowed domain
C38_LoginPlan ==
    /\ dag.intent.taskType = "login"
    /\ HasNode(dag, dag.entryPoint)
    /\ FindNode(dag, dag.entryPoint).action.type = "navigate"
    /\ StartsWithHttps(FindNode(dag, dag.entryPoint).action.target)
    /\ \E d \in Range(dag.intent.allowedDomains) :
          HostMatches(d, FindNode(dag, dag.entryPoint).action.target.host)

\* C38: for a login-task intent, a plan whose entry node navigates to an
\* https:// URL on an allowed domain is not blocked at its entry node: the
\* HTTPS-for-login check does not deny the session's first action merely
\* because no page has been visited yet.
C38_LoginEntryNotBlocked ==
    C38_LoginPlan =>
        ~(/\ Len(log) >= 1
          /\ log[1].kind = "policy"
          /\ log[1].node = dag.entryPoint
          /\ ~log[1].ok)

\* no run over such a plan ever reaches the adapter
C38_LoginNeverActs == C38_LoginPlan => Len(AdapterCalls) = 0


(***************************************************************************)
(* Properties of the execution trace (specification Spec)                  *)
(***************************************************************************)
\* the actions of the run that were executed: the adapter calls that returned
C40_Executed == SelectSeq(log, LAMBDA e : e.kind = "adapter" /\ e.ok)

=============================================================================
